---- MODULE Spec2Model ----
(***************************************************************************)
(* KubeScaler operator (src/src/operator.py): the reconciliation loop, the *)
(* schedule grammar, the scale-down/backup and scale-up/restore decision   *)
(* and the ConfigMap snapshot store with retention pruning.                *)
(*                                                                         *)
(* Text (annotation values, namespace names, strftime output) is a         *)
(* sequence of one-character strings, so that split/strip/lower/startswith *)
(* are computed as Python computes them.                                   *)
(***************************************************************************)
EXTENDS Integers, Sequences, FiniteSets, TLC

(***************************************************************************)
(* The state of the operator and of the cluster it acts on.                *)
(***************************************************************************)
VARIABLES
  now,                    \* the wall clock: datetime.now(pytz.utc) is Instant(now)
  objects,                \* the workloads: [exists, annotated, spec] per workload id
  cms,                    \* the ConfigMaps of the cluster
  MAX_BACKUPS_TO_RETAIN,  \* read from the environment at start
  stop,                   \* reconciliation_stop_event
  pc,                     \* where the reconciliation thread is
  run_now_utc,            \* the now_utc run_reconciliation captured
  nsTodo,                 \* eligible namespaces still to process in this pass
  kindTodo,               \* kinds still to list in the namespace at hand
  itemTodo,               \* listed items still to process for the kind at hand
  faults,                 \* collaborator calls that have failed so far
  last,                   \* the latest call of process_single_resource
  hib,                    \* per workload: scale-down ticks since its last scale-up
  visited,                \* namespaces process_resources ran for in this pass
  saved,                  \* names of the snapshots of web, in the order created
  trail,                  \* what this pass has listed and processed, in order
  stoppedIn,              \* where the thread was when cleanup set the stop event
  input,                  \* a schedule annotation and an instant to check it at
  output,                 \* what parse_schedule and is_schedule_active, or
                          \* find_latest_backup_state, returned
  applied                 \* per workload: what its scale-up ticks since its last
                          \* scale-down tick handed to the scaler

vars == <<now, objects, cms, MAX_BACKUPS_TO_RETAIN, stop, pc, run_now_utc,
          nsTodo,
          kindTodo, itemTodo, faults, last, hib, visited, saved, trail,
          stoppedIn, input, output, applied>>

(***************************************************************************)
(* Bounds of the model.                                                    *)
(***************************************************************************)
\* wall-clock instants 0..MaxTime (see Instant)
MaxTime == 6
\* instants the wall clock may advance while one pass runs
MaxDrift == 1
\* largest replica count a workload starts with
MaxReplicas == 2
\* failing collaborator calls in one behaviour
MaxFaults == 1
\* largest configured MAX_BACKUPS_TO_RETAIN
MaxRetain == 3
\* snapshots of one resource that exist before the operator starts
MaxOld == 2

(***************************************************************************)
(* Python text primitives.                                                 *)
(***************************************************************************)
Digits == {"0", "1", "2", "3", "4", "5", "6", "7", "8", "9"}
DigitSeq == <<"0", "1", "2", "3", "4", "5", "6", "7", "8", "9">>
LowerSeq == <<"a", "b", "c", "d", "e", "f", "g", "h", "i", "j", "k", "l", "m",
              "n", "o", "p", "q", "r", "s", "t", "u", "v", "w", "x", "y", "z">>
UpperSeq == <<"A", "B", "C", "D", "E", "F", "G", "H", "I", "J", "K", "L", "M",
              "N", "O", "P", "Q", "R", "S", "T", "U", "V", "W", "X", "Y", "Z">>
Range(s) == {s[i] : i \in DOMAIN s}

\* c.isalpha()
IsAlpha(c) == c \in Range(LowerSeq) \cup Range(UpperSeq)
\* c.isdigit()
IsDigit(c) == c \in Digits
\* c.lower()
LowerChar(c) ==
  IF c \in Range(UpperSeq)
  THEN LowerSeq[CHOOSE i \in DOMAIN UpperSeq : UpperSeq[i] = c]
  ELSE c
\* s.lower()
Lower(s) == [i \in DOMAIN s |-> LowerChar(s[i])]

\* s.strip()
RECURSIVE LStrip(_)
LStrip(s) == IF s # <<>> /\ Head(s) = " " THEN LStrip(Tail(s)) ELSE s
RECURSIVE RStrip(_)
RStrip(s) ==
  IF s # <<>> /\ s[Len(s)] = " " THEN RStrip(SubSeq(s, 1, Len(s) - 1)) ELSE s
Strip(s) == RStrip(LStrip(s))

\* s.split(sep) for a one-character separator: never an empty list
RECURSIVE Split(_, _)
Split(s, sep) ==
  IF \A i \in DOMAIN s : s[i] # sep
  THEN <<s>>
  ELSE LET i == CHOOSE k \in DOMAIN s : s[k] = sep /\ \A j \in 1..(k - 1) : s[j] # sep
       IN <<SubSeq(s, 1, i - 1)>> \o Split(SubSeq(s, i + 1, Len(s)), sep)

\* sub in s
Contains(s, sub) ==
  \E i \in 1..(Len(s) - Len(sub) + 1) : SubSeq(s, i, i + Len(sub) - 1) = sub
\* s.startswith(p)
StartsWith(s, p) == Len(s) >= Len(p) /\ SubSeq(s, 1, Len(p)) = p
\* s[:n]
Take(s, n) == SubSeq(s, 1, IF Len(s) < n THEN Len(s) ELSE n)

\* Python's None where a text is expected, and the wildcard "*"
None == <<"None">>
Star == <<"*">>

(***************************************************************************)
(* The wall clock.  Instant i is a UTC datetime of December 2026; the 11th *)
(* is a Friday.  Each day has SlotsPerDay instants around 09:00.           *)
(***************************************************************************)
SlotOffset == <<0, 20, 60, 125>>
SlotsPerDay == Len(SlotOffset)
Instant(i) ==
  LET d == i \div SlotsPerDay
      off == SlotOffset[(i % SlotsPerDay) + 1]
  IN [year |-> 2026, month |-> 12, day |-> 11 + d, weekday |-> (4 + d) % 7,
      hour |-> 9, minute |-> off \div 60, second |-> off % 60]
\* seconds since the start of the month
Seconds(dt) == ((dt.day * 24 + dt.hour) * 60 + dt.minute) * 60 + dt.second

MonthAbbr == << <<"j", "a", "n">>, <<"f", "e", "b">>, <<"m", "a", "r">>,
                <<"a", "p", "r">>, <<"m", "a", "y">>, <<"j", "u", "n">>,
                <<"j", "u", "l">>, <<"a", "u", "g">>, <<"s", "e", "p">>,
                <<"o", "c", "t">>, <<"n", "o", "v">>, <<"d", "e", "c">> >>
WeekdayAbbr == << <<"m", "o", "n">>, <<"t", "u", "e">>, <<"w", "e", "d">>,
                  <<"t", "h", "u">>, <<"f", "r", "i">>, <<"s", "a", "t">>,
                  <<"s", "u", "n">> >>
Pad2(n) == <<DigitSeq[(n \div 10) + 1], DigitSeq[(n % 10) + 1]>>
\* str(n) for 0 <= n <= 99
Str(n) == IF n < 10 THEN <<DigitSeq[n + 1]>> ELSE Pad2(n)
\* now_utc.strftime('%H:%M'), '%Y', '%b'.lower(), '%a'.lower()
StrfHM(dt) == Pad2(dt.hour) \o <<":">> \o Pad2(dt.minute)
StrfY(dt) == Pad2(dt.year \div 100) \o Pad2(dt.year % 100)
StrfB(dt) == MonthAbbr[dt.month]
StrfA(dt) == WeekdayAbbr[dt.weekday + 1]

(***************************************************************************)
(* Schedule parsing and checking.                                          *)
(***************************************************************************)
\* the branch of the classification loop a token takes
TokenClass(part) ==
  IF part = <<>> THEN "skip"
  ELSE IF Len(part) = 4 /\ \A i \in DOMAIN part : IsDigit(part[i]) THEN "year"
  ELSE IF \E i \in DOMAIN part : IsAlpha(part[i])
       THEN IF \E m \in DOMAIN MonthAbbr : Contains(part, MonthAbbr[m])
            THEN "month" ELSE "day"
  ELSE IF \A i \in DOMAIN part : IsDigit(part[i]) \/ part[i] = ","
       THEN "date"
  ELSE "drop"

\* the value a category holds after the loop: its last token, or "*"
LastOfClass(parts, cls) ==
  LET hits == {i \in DOMAIN parts : TokenClass(parts[i]) = cls}
  IN IF hits = {} THEN Star
     ELSE parts[CHOOSE i \in hits : \A j \in hits : j <= i]

\* the fields read by position: year;month;day;date, then the time
parse_schedule_Positional(schedule_annotation) ==
  IF schedule_annotation = None \/ schedule_annotation = <<>>
  THEN [year |-> Star, month |-> Star, day |-> Star, date |-> Star, time |-> None]
  ELSE LET split == Split(schedule_annotation, ";")
           parts == [i \in DOMAIN split |-> Lower(Strip(split[i]))]
           final == parts[Len(parts)]
           hasTime == ":" \in Range(final)
           rest == IF hasTime THEN SubSeq(parts, 1, Len(parts) - 1) ELSE parts
           At(k) == IF k <= Len(rest) /\ rest[k] # <<>> THEN rest[k] ELSE Star
       IN [year |-> At(1), month |-> At(2), day |-> At(3), date |-> At(4),
           time |-> IF hasTime THEN final ELSE None]

parse_schedule(schedule_annotation) ==
  IF schedule_annotation = None \/ schedule_annotation = <<>>
  THEN [year |-> Star, month |-> Star, day |-> Star, date |-> Star, time |-> None]
  ELSE LET split == Split(schedule_annotation, ";")
           parts == [i \in DOMAIN split |-> Lower(Strip(split[i]))]
           final == parts[Len(parts)]
           hasTime == ":" \in Range(final)
           rest == IF hasTime THEN SubSeq(parts, 1, Len(parts) - 1) ELSE parts
       IN [year |-> LastOfClass(rest, "year"),
           month |-> LastOfClass(rest, "month"),
           day |-> LastOfClass(rest, "day"),
           date |-> LastOfClass(rest, "date"),
           time |-> IF hasTime THEN final ELSE None]

\* any(current.startswith(m[:3]) for m in [m.strip() for m in spec.split(',')])
AnyPrefix(current, spec) ==
  LET items == Split(spec, ",")
  IN \E i \in DOMAIN items : StartsWith(current, Take(Strip(items[i]), 3))

\* a schedule with no time taken as one for every minute
is_schedule_active_TimeOptional(schedule_annotation, now_utc) ==
  IF schedule_annotation = None \/ schedule_annotation = <<>> THEN FALSE
  ELSE LET p == parse_schedule(schedule_annotation)
       IN IF p.time # None /\ StrfHM(now_utc) # p.time THEN FALSE
          ELSE IF p.year # Star /\ StrfY(now_utc) # p.year THEN FALSE
          ELSE IF p.month # Star /\ ~AnyPrefix(StrfB(now_utc), p.month) THEN FALSE
          ELSE IF p.day # Star /\ ~AnyPrefix(StrfA(now_utc), p.day) THEN FALSE
          ELSE IF p.date # Star
                  /\ Str(now_utc.day) \notin
                       {Strip(d) : d \in Range(Split(p.date, ","))}
               THEN FALSE
          ELSE TRUE

is_schedule_active(schedule_annotation, now_utc) ==
  IF schedule_annotation = None \/ schedule_annotation = <<>> THEN FALSE
  ELSE LET p == parse_schedule(schedule_annotation)
       IN IF p.time = None \/ StrfHM(now_utc) # p.time THEN FALSE
          ELSE IF p.year # Star /\ StrfY(now_utc) # p.year THEN FALSE
          ELSE IF p.month # Star /\ ~AnyPrefix(StrfB(now_utc), p.month) THEN FALSE
          ELSE IF p.day # Star /\ ~AnyPrefix(StrfA(now_utc), p.day) THEN FALSE
          ELSE IF p.date # Star
                  /\ Str(now_utc.day) \notin
                       {Strip(d) : d \in Range(Split(p.date, ","))}
               THEN FALSE
          ELSE TRUE

(***************************************************************************)
(* Constants for annotations, kinds and the cluster the operator runs on.  *)
(***************************************************************************)
Disable == <<"D", "i", "s", "a", "b", "l", "e">>
KubePrefix == <<"k", "u", "b", "e", "-">>

\* the order of the resource_processors dictionary
Kinds == <<"Deployment", "StatefulSet", "HorizontalPodAutoscaler", "CronJob">>
\* kind.lower()
KindLower(kind) ==
  CASE kind = "Deployment" -> "deployment"
    [] kind = "StatefulSet" -> "statefulset"
    [] kind = "HorizontalPodAutoscaler" -> "horizontalpodautoscaler"
    [] kind = "CronJob" -> "cronjob"

\* dep.spec.replicas is None
NoneInt == -1
\* a Python value that is None where a state dictionary is expected
NoState == [none |-> TRUE]
\* Python truthiness of a state dictionary or None
Truthy(state) == state # NoState
\* x or d, for an optional integer
OrInt(x, d) == IF x = NoneInt \/ x = 0 THEN d ELSE x
\* x or False, for an optional boolean ("None", "True", "False")
OrFalse(x) == IF x = "True" THEN "True" ELSE "False"

\* json.dumps / json.loads: a stored text either is the JSON of a value or is malformed
json_dumps(state) == [valid |-> TRUE, val |-> state]
Malformed == [valid |-> FALSE, val |-> NoState]
json_loads(text) ==
  IF text.valid THEN [ret |-> text.val, exc |-> "none"]
  ELSE [ret |-> NoState, exc |-> "JSONDecodeError"]

NsDev == <<"d", "e", "v">>
NsKubeSystem == <<"k", "u", "b", "e", "-", "s", "y", "s", "t", "e", "m">>
NsOff == <<"o", "f", "f">>
NsKubeflow == <<"k", "u", "b", "e", "f", "l", "o", "w">>
\* core_v1.list_namespace(): name and ks_scale annotation, in the order returned
NamespaceList ==
  << [name |-> NsDev, ks_scale |-> None],
     [name |-> NsKubeSystem, ks_scale |-> None],
     [name |-> NsOff, ks_scale |-> Disable],
     [name |-> NsKubeflow, ks_scale |-> Lower(Disable)] >>

T0900 == <<"0", "9", ":", "0", "0">>
T0901 == <<"0", "9", ":", "0", "1">>
T0902 == <<"0", "9", ":", "0", "2">>
Sat0901 == <<"S", "a", "t", ";">> \o T0901
Fri0901 == <<"f", "r", "i", ";", " ">> \o T0901
FullFri0900 ==
  <<"2", "0", "2", "6", ";", "D", "e", "c", ";", "F", "r", "i", ";", "1", "1", ";">>
    \o T0900
\* schedules with no time token
FriNoTime == <<"F", "r", "i">>
FullFriNoTime ==
  <<"2", "0", "2", "6", ";", "D", "e", "c", ";", "F", "r", "i", ";", "1", "1">>
Ann(ctl, up, down) == [ks_scale |-> ctl, ks_scale_up |-> up, ks_scale_down |-> down]

\* the workloads of the cluster, in the order a list call returns them
Workloads ==
  << [ns |-> NsDev, kind |-> "Deployment", name |-> "idle",
      ann |-> Ann(Disable, T0901, T0900)],
     [ns |-> NsDev, kind |-> "Deployment", name |-> "web",
      ann |-> Ann(None, Sat0901, T0900)],
     [ns |-> NsDev, kind |-> "StatefulSet", name |-> "db",
      ann |-> Ann(None, T0901, FullFri0900)],
     [ns |-> NsDev, kind |-> "HorizontalPodAutoscaler", name |-> "web",
      ann |-> Ann(None, T0901, T0900)],
     [ns |-> NsDev, kind |-> "CronJob", name |-> "job",
      ann |-> Ann(None, T0901, Fri0901)],
     [ns |-> NsDev, kind |-> "CronJob", name |-> "nightly",
      ann |-> Ann(None, T0900, None)],
     [ns |-> NsKubeSystem, kind |-> "Deployment", name |-> "dns",
      ann |-> Ann(None, T0901, T0900)],
     [ns |-> NsOff, kind |-> "StatefulSet", name |-> "cache",
      ann |-> Ann(None, T0901, T0900)],
     [ns |-> NsKubeflow, kind |-> "Deployment", name |-> "api",
      ann |-> Ann(None, T0902, T0900)],
     [ns |-> NsKubeflow, kind |-> "StatefulSet", name |-> "batch",
      ann |-> Ann(None, FriNoTime, FullFriNoTime)] >>
\* is_schedule_active, tabulated once for the annotations and instants of the model
ScheduleTexts ==
  {None} \cup {Workloads[i].ann.ks_scale_up : i \in DOMAIN Workloads}
         \cup {Workloads[i].ann.ks_scale_down : i \in DOMAIN Workloads}
ActiveSet ==
  UNION {IF is_schedule_active(st[1], Instant(st[2])) THEN {st} ELSE {} :
           st \in ScheduleTexts \X (0..MaxTime)}
IsActive(schedule_annotation, at) == <<schedule_annotation, at>> \in ActiveSet
Id(ns, kind, name) == [ns |-> ns, kind |-> kind, name |-> name]
WorkloadId(i) == Id(Workloads[i].ns, Workloads[i].kind, Workloads[i].name)
Ids == {WorkloadId(i) : i \in DOMAIN Workloads}
\* the annotations a workload is deployed with
AnnOf(id) == Workloads[CHOOSE i \in DOMAIN Workloads : WorkloadId(i) = id].ann
HpaSpec == [max_replicas |-> 3]
(***************************************************************************)
(* The collaborator.  A world w is the cluster as one call of              *)
(* process_single_resource sees and changes it: the workloads, the         *)
(* ConfigMaps, and the calls made so far.  A plan is the set of            *)
(* <<position, outcome>> pairs of the calls that fail: "api" is a          *)
(* kubernetes.client.ApiException, "exc" any other exception.              *)
(***************************************************************************)
IsApiError(o) == o \in {"api", "404", "409"}
\* the outcome of the next call, which left alone would end as `natural`
Out(w, plan, natural) ==
  LET k == Len(w.calls) + 1
  IN IF \E a \in plan : a[1] = k
     THEN (CHOOSE a \in plan : a[1] = k)[2]
     ELSE natural
Logged(w, fn, api, id, arg, o) ==
  [w EXCEPT !.calls = Append(@, [fn |-> fn, api |-> api, id |-> id,
                                  arg |-> arg, out |-> o])]

\* a label selector without resource-kind: the ConfigMaps of the namespace
\* labelled with the name, of whatever kind
Selected_AnyKind(cmset, namespace, kind, name) ==
  {cm \in cmset : cm.ns = namespace /\ cm.rname = name}

\* label_selector managed-by=kubescaler,resource-kind=<kind>,resource-name=<name>
Selected(cmset, namespace, kind, name) ==
  {cm \in cmset : cm.ns = namespace /\ cm.kind = kind /\ cm.rname = name}
\* sorted(items, key=creation_timestamp): ascending; ties by name
RECURSIVE SortByCreated(_)
SortByCreated(S) ==
  IF S = {} THEN <<>>
  ELSE LET m == CHOOSE c \in S : \A d \in S :
                  c.created < d.created
                  \/ (c.created = d.created /\ c.name[3] <= d.name[3])
       IN <<m>> \o SortByCreated(S \ {m})


(***************************************************************************)
(* State getters.  Each returns [w, ret, exc]: the world after the call,   *)
(* the value returned and the exception that escapes ("none" if none).     *)
(***************************************************************************)
\* a read of one workload: not-found is an ApiException of status 404
ReadCall(w, plan, fn, id) ==
  LET o == Out(w, plan, IF w.obj[id].exists THEN "ok" ELSE "404")
  IN [w |-> Logged(w, fn, "read", id, NoState, o), out |-> o]

get_deployment_state(w, plan, namespace, name) ==
  LET id == Id(namespace, "Deployment", name)
      c == ReadCall(w, plan, "get_deployment_state", id)
  IN IF c.out = "ok"
     THEN [w |-> c.w, exc |-> "none",
           ret |-> [replicas |-> OrInt(w.obj[id].spec.replicas, 1)]]
     ELSE IF IsApiError(c.out) THEN [w |-> c.w, ret |-> NoState, exc |-> "none"]
     ELSE [w |-> c.w, ret |-> NoState, exc |-> "exc"]

get_statefulset_state(w, plan, namespace, name) ==
  LET id == Id(namespace, "StatefulSet", name)
      c == ReadCall(w, plan, "get_statefulset_state", id)
  IN IF c.out = "ok"
     THEN [w |-> c.w, exc |-> "none",
           ret |-> [replicas |-> OrInt(w.obj[id].spec.replicas, 1)]]
     ELSE IF IsApiError(c.out) THEN [w |-> c.w, ret |-> NoState, exc |-> "none"]
     ELSE [w |-> c.w, ret |-> NoState, exc |-> "exc"]

get_hpa_state(w, plan, namespace, name) ==
  LET id == Id(namespace, "HorizontalPodAutoscaler", name)
      c == ReadCall(w, plan, "get_hpa_state", id)
  IN IF c.out = "ok"
     THEN [w |-> c.w, exc |-> "none", ret |-> [spec |-> w.obj[id].spec.spec]]
     ELSE IF IsApiError(c.out) THEN [w |-> c.w, ret |-> NoState, exc |-> "none"]
     ELSE [w |-> c.w, ret |-> NoState, exc |-> "exc"]

get_cronjob_state(w, plan, namespace, name) ==
  LET id == Id(namespace, "CronJob", name)
      c == ReadCall(w, plan, "get_cronjob_state", id)
  IN IF c.out = "ok"
     THEN [w |-> c.w, exc |-> "none",
           ret |-> [suspend |-> OrFalse(w.obj[id].spec.suspend)]]
     ELSE IF IsApiError(c.out) THEN [w |-> c.w, ret |-> NoState, exc |-> "none"]
     ELSE [w |-> c.w, ret |-> NoState, exc |-> "exc"]

(***************************************************************************)
(* Scalers.  Each returns [w, exc].                                        *)
(***************************************************************************)
\* a patch of one workload's spec
PatchCall(w, plan, fn, id, direction, body) ==
  LET o == Out(w, plan, IF w.obj[id].exists THEN "ok" ELSE "404")
      w1 == Logged(w, fn, "patch", id, [direction |-> direction, body |-> body], o)
  IN IF o = "ok"
     THEN [w |-> [w1 EXCEPT !.obj[id].spec = body], exc |-> "none"]
     ELSE [w |-> w1, exc |-> IF IsApiError(o) THEN "none" ELSE "exc"]

\* state.get(key, default) if state else default
GetOr(state, key, default) ==
  IF Truthy(state) /\ key \in DOMAIN state THEN state[key] ELSE default

scale_deployment(w, plan, namespace, name, direction, state) ==
  LET replicas == IF direction = "down" THEN 0 ELSE GetOr(state, "replicas", 1)
  IN PatchCall(w, plan, "scale_deployment", Id(namespace, "Deployment", name),
               direction, [replicas |-> replicas])

scale_statefulset(w, plan, namespace, name, direction, state) ==
  LET replicas == IF direction = "down" THEN 0 ELSE GetOr(state, "replicas", 1)
  IN PatchCall(w, plan, "scale_statefulset", Id(namespace, "StatefulSet", name),
               direction, [replicas |-> replicas])

scale_cronjob(w, plan, namespace, name, direction, state) ==
  LET suspend == IF direction = "down" THEN "True"
                 ELSE GetOr(state, "suspend", "False")
  IN PatchCall(w, plan, "scale_cronjob", Id(namespace, "CronJob", name),
               direction, [suspend |-> suspend])

scale_hpa(w, plan, namespace, name, direction, state) ==
  LET id == Id(namespace, "HorizontalPodAutoscaler", name)
  IN IF direction = "down"
     THEN LET o == Out(w, plan, IF w.obj[id].exists THEN "ok" ELSE "404")
              w1 == Logged(w, "scale_hpa", "delete", id,
                           [direction |-> direction, body |-> NoState], o)
          IN IF o = "ok"
             THEN [w |-> [w1 EXCEPT !.obj[id].exists = FALSE], exc |-> "none"]
             ELSE [w |-> w1, exc |-> IF IsApiError(o) THEN "none" ELSE "exc"]
     ELSE IF ~Truthy(state) \/ "spec" \notin DOMAIN state
          THEN [w |-> w, exc |-> "none"]
          ELSE LET o == Out(w, plan, IF w.obj[id].exists THEN "409" ELSE "ok")
                   w1 == Logged(w, "scale_hpa", "create", id,
                                [direction |-> direction, body |-> state], o)
               IN IF o = "ok"
                  THEN [w |-> [w1 EXCEPT !.obj[id] =
                                 [exists |-> TRUE,
                                  annotated |-> FALSE,
                                  spec |-> [spec |-> state.spec]]],
                        exc |-> "none"]
                  ELSE [w |-> w1, exc |-> IF IsApiError(o) THEN "none" ELSE "exc"]


(***************************************************************************)
(* State management and pruning.                                           *)
(***************************************************************************)
\* the for loop over cms_to_delete
RECURSIVE DeleteEach(_, _, _, _)
DeleteEach(w, plan, id, todo) ==
  IF todo = <<>> THEN [w |-> w, exc |-> "none"]
  ELSE LET cm == Head(todo)
           o == Out(w, plan, IF cm \in w.cms THEN "ok" ELSE "404")
           w1 == Logged(w, "prune_old_backups", "delete_config_map", id,
                        [cm |-> cm.name], o)
       IN IF o = "ok"
          THEN DeleteEach([w1 EXCEPT !.cms = @ \ {cm}], plan, id, Tail(todo))
          ELSE IF IsApiError(o) THEN DeleteEach(w1, plan, id, Tail(todo))
          ELSE [w |-> w1, exc |-> "exc"]

\* a slice that keeps one snapshot too many
ToDelete_KeepOneMore(sorted_cms, retain) ==
  SubSeq(sorted_cms, 1, Len(sorted_cms) - retain - 1)
\* a slice taken from the wrong end: sorted_cms[MAX_BACKUPS_TO_RETAIN:]
ToDelete_Newest(sorted_cms, retain) == SubSeq(sorted_cms, retain + 1, Len(sorted_cms))
\* sorted_cms[:-MAX_BACKUPS_TO_RETAIN]: all but the last retain items; for
\* retain = 0 the slice [:0], no item; for retain < 0 the first -retain items
ToDelete(sorted_cms, retain) ==
  IF retain > 0 THEN SubSeq(sorted_cms, 1, Len(sorted_cms) - retain)
  ELSE IF retain = 0 THEN <<>>
  ELSE SubSeq(sorted_cms, 1, IF -retain < Len(sorted_cms) THEN -retain
                              ELSE Len(sorted_cms))

\* prune_old_backups without the return for MAX_BACKUPS_TO_RETAIN <= 0
prune_old_backups_NoGuard(w, plan, namespace, kind, name) ==
  LET id == Id(namespace, kind, name)
      o == Out(w, plan, "ok")
      w1 == Logged(w, "prune_old_backups", "list_config_map", id, NoState, o)
      items == Selected(w.cms, namespace, kind, name)
  IN IF o = "ok"
     THEN IF Cardinality(items) <= MAX_BACKUPS_TO_RETAIN
          THEN [w |-> w1, exc |-> "none"]
          ELSE DeleteEach(w1, plan, id,
                          ToDelete(SortByCreated(items), MAX_BACKUPS_TO_RETAIN))
     ELSE [w |-> w1, exc |-> IF IsApiError(o) THEN "none" ELSE "exc"]

prune_old_backups(w, plan, namespace, kind, name) ==
  IF MAX_BACKUPS_TO_RETAIN <= 0 THEN [w |-> w, exc |-> "none"]
  ELSE LET id == Id(namespace, kind, name)
           o == Out(w, plan, "ok")
           w1 == Logged(w, "prune_old_backups", "list_config_map", id, NoState, o)
           items == Selected(w.cms, namespace, kind, name)
       IN IF o = "ok"
          THEN IF Cardinality(items) <= MAX_BACKUPS_TO_RETAIN
               THEN [w |-> w1, exc |-> "none"]
               ELSE DeleteEach(w1, plan, id,
                               ToDelete(SortByCreated(items), MAX_BACKUPS_TO_RETAIN))
          ELSE [w |-> w1, exc |-> IF IsApiError(o) THEN "none" ELSE "exc"]

\* cm_name, ks-backup-<kind>-<name>-<%Y%m%d-%H%M%S>: its three variable parts,
\* the kind in lower case, the name of the resource and the second of the
\* wall clock
cm_name_NoKind(kind, name, clock) == <<"", name, Seconds(Instant(clock))>>

cm_name(kind, name, clock) == <<KindLower(kind), name, Seconds(Instant(clock))>>

\* the ConfigMap backup_state builds at wall-clock instant `clock`
BackupBody(namespace, kind, name, state, clock) ==
  [ns |-> namespace,
   name |-> cm_name(kind, name, clock),
   kind |-> kind, rname |-> name,
   created |-> Seconds(Instant(clock)),
   key |-> <<KindLower(kind), name>>,
   data |-> json_dumps(state)]

backup_state(w, plan, namespace, kind, name, state, clock) ==
  LET id == Id(namespace, kind, name)
      body == BackupBody(namespace, kind, name, state, clock)
      taken == \E cm \in w.cms : cm.ns = namespace /\ cm.name = body.name
      o == Out(w, plan, IF taken THEN "409" ELSE "ok")
      w1 == Logged(w, "backup_state", "create_config_map", id,
                   [state |-> state, cm |-> body.name], o)
  IN IF o = "ok"
     THEN prune_old_backups([w1 EXCEPT !.cms = @ \cup {body}], plan,
                            namespace, kind, name)
     ELSE [w |-> w1, exc |-> IF IsApiError(o) THEN "none" ELSE "exc"]

\* sorted(items, key=creation_timestamp)[0]: the sort without reverse=True
Latest_Oldest(items) ==
  LET sorted == SortByCreated(items) IN sorted[1]

\* sorted(items, key=creation_timestamp, reverse=True)[0]
Latest(items) ==
  LET sorted == SortByCreated(items) IN sorted[Len(sorted)]

\* find_latest_backup_state that falls back to the newest snapshot it can use
find_latest_backup_state_Fallback(w, plan, namespace, kind, name) ==
  LET id == Id(namespace, kind, name)
      o == Out(w, plan, "ok")
      w1 == Logged(w, "find_latest_backup_state", "list_config_map", id, NoState, o)
      key_name == <<KindLower(kind), name>>
      items == {cm \in Selected(w.cms, namespace, kind, name) :
                  cm.key = key_name /\ json_loads(cm.data).exc = "none"}
  IN IF o = "ok"
     THEN IF items = {} THEN [w |-> w1, ret |-> NoState, exc |-> "none"]
          ELSE [w |-> w1, ret |-> json_loads(Latest(items).data).ret,
                exc |-> "none"]
     ELSE [w |-> w1, ret |-> NoState,
           exc |-> IF IsApiError(o) THEN "none" ELSE "exc"]

\* the newest ConfigMap of the resource decides: its payload under the key
\* <kind>-<name> is decoded, and a missing key or a JSONDecodeError gives None
find_latest_backup_state(w, plan, namespace, kind, name) ==
  LET id == Id(namespace, kind, name)
      o == Out(w, plan, "ok")
      w1 == Logged(w, "find_latest_backup_state", "list_config_map", id, NoState, o)
      items == Selected(w.cms, namespace, kind, name)
  IN IF o = "ok"
     THEN IF items = {} THEN [w |-> w1, ret |-> NoState, exc |-> "none"]
          ELSE LET latest_cm == Latest(items)
                   key_name == <<KindLower(kind), name>>
               IN IF latest_cm.key = key_name
                  THEN [w |-> w1, ret |-> json_loads(latest_cm.data).ret,
                        exc |-> "none"]
                  ELSE [w |-> w1, ret |-> NoState, exc |-> "none"]
     ELSE [w |-> w1, ret |-> NoState,
           exc |-> IF IsApiError(o) THEN "none" ELSE "exc"]

(***************************************************************************)
(* Resource processing.                                                    *)
(***************************************************************************)
\* the state_getter_func and scaler_func of a kind in resource_processors
StateGetter(kind, w, plan, namespace, name) ==
  CASE kind = "Deployment" -> get_deployment_state(w, plan, namespace, name)
    [] kind = "StatefulSet" -> get_statefulset_state(w, plan, namespace, name)
    [] kind = "HorizontalPodAutoscaler" -> get_hpa_state(w, plan, namespace, name)
    [] kind = "CronJob" -> get_cronjob_state(w, plan, namespace, name)
Scaler(kind, w, plan, namespace, name, direction, state) ==
  CASE kind = "Deployment" ->
         scale_deployment(w, plan, namespace, name, direction, state)
    [] kind = "StatefulSet" ->
         scale_statefulset(w, plan, namespace, name, direction, state)
    [] kind = "HorizontalPodAutoscaler" ->
         scale_hpa(w, plan, namespace, name, direction, state)
    [] kind = "CronJob" ->
         scale_cronjob(w, plan, namespace, name, direction, state)

\* the scale-down branch: read the state, back it up, scale down; any
\* exception ends the branch
ScaleDownBranch(w, plan, namespace, name, kind, clock) ==
  LET g == StateGetter(kind, w, plan, namespace, name)
  IN IF g.exc # "none" THEN g.w
     ELSE IF ~Truthy(g.ret) THEN g.w
     ELSE LET b == backup_state(g.w, plan, namespace, kind, name, g.ret, clock)
          IN IF b.exc # "none" THEN b.w
             ELSE Scaler(kind, b.w, plan, namespace, name, "down", NoState).w

\* the scale-up branch: find the latest backup and, if there is one, scale up
ScaleUpBranch(w, plan, namespace, name, kind) ==
  LET r == find_latest_backup_state(w, plan, namespace, kind, name)
  IN IF r.exc # "none" THEN r.w
     ELSE IF ~Truthy(r.ret) THEN r.w
     ELSE Scaler(kind, r.w, plan, namespace, name, "up", r.ret).w

\* process_single_resource with the scale-up schedule checked first
process_single_resource_UpFirst(w, plan, namespace, resource, kind, at, clock) ==
  IF resource.ann.ks_scale = Disable THEN w
  ELSE IF IsActive(resource.ann.ks_scale_up, at)
  THEN ScaleUpBranch(w, plan, namespace, resource.name, kind)
  ELSE IF IsActive(resource.ann.ks_scale_down, at)
  THEN ScaleDownBranch(w, plan, namespace, resource.name, kind, clock)
  ELSE w

\* process_single_resource that scales up with the scaler's defaults when no
\* backup is found
process_single_resource_DefaultUp(w, plan, namespace, resource, kind, at, clock) ==
  IF resource.ann.ks_scale = Disable THEN w
  ELSE IF IsActive(resource.ann.ks_scale_down, at)
  THEN ScaleDownBranch(w, plan, namespace, resource.name, kind, clock)
  ELSE IF IsActive(resource.ann.ks_scale_up, at)
  THEN LET r == find_latest_backup_state(w, plan, namespace, kind, resource.name)
       IN IF r.exc # "none" THEN r.w
          ELSE Scaler(kind, r.w, plan, namespace, resource.name, "up", r.ret).w
  ELSE w

\* process_single_resource without the check of the control annotation
process_single_resource_NoDisable(w, plan, namespace, resource, kind, at, clock) ==
  IF IsActive(resource.ann.ks_scale_down, at)
  THEN ScaleDownBranch(w, plan, namespace, resource.name, kind, clock)
  ELSE IF IsActive(resource.ann.ks_scale_up, at)
  THEN ScaleUpBranch(w, plan, namespace, resource.name, kind)
  ELSE w

\* the world after process_single_resource; `at` is the pass's now_utc and
\* `clock` the wall clock during the call.  No exception escapes it.
process_single_resource(w, plan, namespace, resource, kind, at, clock) ==
  LET name == resource.name
      annotations == resource.ann
  IN IF annotations.ks_scale = Disable THEN w
     ELSE IF IsActive(annotations.ks_scale_down, at)
     THEN ScaleDownBranch(w, plan, namespace, name, kind, clock)
     ELSE IF IsActive(annotations.ks_scale_up, at)
     THEN ScaleUpBranch(w, plan, namespace, name, kind)
     ELSE w

\* get_eligible_namespaces without the check of the system prefix
get_eligible_namespaces_NoPrefix(listing, o) ==
  IF o = "ok"
  THEN LET kept == SelectSeq(listing, LAMBDA ns : ns.ks_scale # Disable)
       IN [i \in DOMAIN kept |-> kept[i].name]
  ELSE <<>>

\* the namespaces get_eligible_namespaces returns when list_namespace ends as `o`
EligibleOf(listing) ==
  SelectSeq(listing, LAMBDA ns : ~StartsWith(ns.name, KubePrefix)
                                 /\ ns.ks_scale # Disable)
get_eligible_namespaces(listing, o) ==
  IF o = "ok"
  THEN LET kept == EligibleOf(listing) IN [i \in DOMAIN kept |-> kept[i].name]
  ELSE <<>>

\* lister(namespace).items: the workloads of the kind that exist
ListItems(obj, namespace, kind) ==
  LET idx == SelectSeq([i \in DOMAIN Workloads |-> i],
                       LAMBDA i : Workloads[i].ns = namespace
                                  /\ Workloads[i].kind = kind
                                  /\ obj[WorkloadId(i)].exists)
  IN [j \in DOMAIN idx |->
        [ns |-> namespace, kind |-> kind, name |-> Workloads[idx[j]].name,
         annotated |-> obj[WorkloadId(idx[j])].annotated]]
\* resource.metadata.annotations or {} of a listed item
ItemAnn(item) ==
  IF item.annotated THEN AnnOf(Id(item.ns, item.kind, item.name))
  ELSE Ann(None, None, None)

(***************************************************************************)
(* Failing calls.                                                          *)
(***************************************************************************)
\* the calls one process_single_resource can make: read, create, list,
\* the deletes, patch
MaxCalls == 4 + MaxOld + MaxFaults
Faulty == (1..MaxCalls) \X {"api", "exc"}
RECURSIVE PlansUpTo(_)
PlansUpTo(b) ==
  IF b = 0 THEN {{}}
  ELSE LET less == PlansUpTo(b - 1)
       IN less \cup {p \cup {a} : p \in less,
                                  a \in {f \in Faulty : TRUE}}
AllPlans ==
  UNION {IF \A a1 \in p, a2 \in p : a1[1] = a2[1] => a1 = a2 THEN {p} ELSE {} :
           p \in PlansUpTo(MaxFaults)}
Budget == IF faults >= MaxFaults THEN 0 ELSE MaxFaults - faults
ListOutcomes == IF Budget > 0 THEN {"ok", "api", "exc"} ELSE {"ok"}

(***************************************************************************)
(* History variables: what the latest call did and what came before it.   *)
(***************************************************************************)
NoLast ==
  [id |-> Id(<<>>, "", ""), dir |-> "none", at |-> 0, calls |-> <<>>,
   ann |-> Ann(None, None, None),
   pre |-> [exists |-> FALSE, annotated |-> FALSE, spec |-> NoState],
   preCms |-> {}, down |-> FALSE, up |-> FALSE,
   hib |-> [n |-> 0, orig |-> NoState, fresh |-> TRUE, clean |-> TRUE]]
\* a workload that is not hibernated: n scale-down ticks since the last scale-up
\* tick, the spec before the first of them, whether it then had no snapshot, and
\* whether every call of those ticks succeeded
NoHib == [n |-> 0, orig |-> NoState, fresh |-> TRUE, clean |-> TRUE]
AllOk(calls) == \A i \in DOMAIN calls : calls[i].out = "ok"
\* the names of the ConfigMaps the calls created
Created(calls) ==
  LET hits == SelectSeq(calls, LAMBDA c : c.api = "create_config_map" /\ c.out = "ok")
  IN [i \in DOMAIN hits |-> hits[i].arg.cm]

\* no schedule at hand: the variables of the schedule checks outside them
NoInput == [tokens |-> <<>>, at |-> 0]
NoOutput == [spec |-> parse_schedule(<<>>), active |-> FALSE]

\* what the calls handed to the scaler's patch, delete and create
ScalerArgs(calls) ==
  LET hits == SelectSeq(calls, LAMBDA c : c.api \in {"patch", "delete", "create"})
  IN [i \in DOMAIN hits |-> hits[i].arg]

\* the cursor after the kind at hand is done
Advance(nsT, kT) ==
  IF kT = <<>> THEN <<Tail(nsT), Kinds>> ELSE <<nsT, kT>>

\* one step of a pass: the namespaces listed, a kind listed or an item processed
Event(ev, out, namespace, kind, items, dir) ==
  [ev |-> ev, out |-> out, ns |-> namespace, kind |-> kind, items |-> items,
   dir |-> dir]

\* a list call that fails skips its kind: the except clauses of process_resources
\* sit inside the loop over the kinds
AfterList_Abort(o, items, nsT, kT) ==
  IF o # "ok" THEN <<<<>>, <<>>>>
  ELSE IF items = <<>> THEN Advance(nsT, Tail(kT)) ELSE <<nsT, Tail(kT)>>

AfterList(o, items, nsT, kT) ==
  IF items = <<>> THEN Advance(nsT, Tail(kT)) ELSE <<nsT, Tail(kT)>>

\* the items left once one is processed: process_single_resource lets no
\* exception out, so the loop over the items goes on whatever the calls did
AfterItem_Abort(calls, itemsT) ==
  IF AllOk(calls) THEN Tail(itemsT) ELSE <<>>

AfterItem(calls, itemsT) == Tail(itemsT)

(***************************************************************************)
(* The reconciliation thread.                                              *)
(***************************************************************************)
OldSnapshots(id, k, state) ==
  {[ns |-> id.ns, name |-> <<KindLower(id.kind), id.name, i>>, kind |-> id.kind,
    rname |-> id.name, created |-> i, key |-> <<KindLower(id.kind), id.name>>,
    data |-> json_dumps(state)] : i \in 1..k}
\* the clusters the operator is started on: <<replicas of Deployment web,
\* MAX_BACKUPS_TO_RETAIN, snapshots Deployment web starts with>>
Scenarios ==
  {<<n, MaxRetain, 0>> : n \in {NoneInt} \cup 0..MaxReplicas}
    \cup {<<MaxReplicas, 1, MaxOld>>, <<1, 0, 0>>, <<MaxReplicas, -1, MaxOld>>}
Web == Id(NsDev, "Deployment", "web")
\* the cluster whose Deployment web starts with n replicas (NoneInt: unset)
Cluster(n) ==
  [id \in Ids |->
     [exists |-> TRUE,
      annotated |-> TRUE,
      spec |-> IF id = Web THEN [replicas |-> n]
               ELSE IF id = Id(NsDev, "StatefulSet", "db")
                    THEN [replicas |-> IF n = NoneInt THEN MaxReplicas
                                       ELSE MaxReplicas - n]
               ELSE IF id = Id(NsDev, "CronJob", "job")
                    THEN [suspend |-> IF n = NoneInt THEN "None"
                                      ELSE IF n % 2 = 0 THEN "False" ELSE "True"]
               ELSE IF id.kind = "HorizontalPodAutoscaler" THEN [spec |-> HpaSpec]
               ELSE IF id.kind = "CronJob" THEN [suspend |-> "False"]
               ELSE [replicas |-> 1]]]

Init ==
  /\ now = 0
  /\ \E c \in Scenarios :
       /\ objects = Cluster(c[1])
       /\ MAX_BACKUPS_TO_RETAIN = c[2]
       /\ cms = OldSnapshots(Web, c[3], [replicas |-> MaxReplicas])
                \cup OldSnapshots(Id(NsKubeSystem, "Deployment", "dns"), 1,
                                  [replicas |-> 1])
  /\ stop = FALSE
  /\ pc = "check"
  /\ run_now_utc = 0
  /\ nsTodo = <<>>
  /\ kindTodo = <<>>
  /\ itemTodo = <<>>
  /\ faults = 0
  /\ last = NoLast
  /\ hib = [id \in Ids |-> NoHib]
  /\ visited = <<>>
  /\ saved = <<>>
  /\ trail = <<>>
  /\ stoppedIn = ""
  /\ input = NoInput
  /\ output = NoOutput
  /\ applied = [id \in Ids |-> <<>>]

\* cleanup sets the stop event
SetStop ==
  /\ ~stop
  /\ stop' = TRUE
  /\ stoppedIn' = pc
  /\ UNCHANGED <<input, output, applied, now, objects, cms,
                 MAX_BACKUPS_TO_RETAIN, pc, run_now_utc, nsTodo, kindTodo,
                 itemTodo, faults, last, hib, visited, saved, trail>>

\* while not reconciliation_stop_event.is_set()
LoopCondition_Always(stopped) == TRUE

LoopCondition(stopped) == ~stopped

\* where the thread is once list_namespace has answered: get_eligible_namespaces
\* catches an ApiException, run_reconciliation any other exception
PassEntered_Uncaught(o) == IF o = "exc" THEN "exited" ELSE "running"

PassEntered(o) == "running"

\* while not reconciliation_stop_event.is_set(): the loop ends
LoopExit ==
  /\ pc = "check"
  /\ ~LoopCondition(stop)
  /\ pc' = "exited"
  /\ UNCHANGED <<now, objects, cms, MAX_BACKUPS_TO_RETAIN, stop, stoppedIn,
                 input, output, applied, run_now_utc, nsTodo, kindTodo,
                 itemTodo, faults, last, hib, visited, saved, trail>>

\* run_reconciliation starts: run_now_utc is captured and the namespaces are listed
StartPass ==
  /\ pc = "check"
  /\ LoopCondition(stop)
  /\ \E o \in ListOutcomes :
       LET eligible == get_eligible_namespaces(NamespaceList, o)
       IN /\ nsTodo' = eligible
          /\ kindTodo' = IF eligible = <<>> THEN <<>> ELSE Kinds
          /\ faults' = IF o = "ok" THEN faults ELSE faults + 1
          /\ trail' = <<Event("namespaces", o, "", "", <<>>, "")>>
          /\ pc' = PassEntered(o)
  /\ run_now_utc' = now
  /\ itemTodo' = <<>>
  /\ visited' = <<>>
  /\ UNCHANGED <<now, objects, cms, MAX_BACKUPS_TO_RETAIN, stop, stoppedIn,
                 input, output, applied, last, hib, saved>>

\* process_resources lists the next kind of the namespace at hand
ListKind ==
  /\ pc = "running"
  /\ nsTodo # <<>>
  /\ itemTodo = <<>>
  /\ \E o \in ListOutcomes :
       LET namespace == Head(nsTodo)
           kind == Head(kindTodo)
           items == IF o = "ok" THEN ListItems(objects, namespace, kind) ELSE <<>>
           next == AfterList(o, items, nsTodo, kindTodo)
       IN /\ itemTodo' = items
          /\ trail' = Append(trail, Event("list", o, namespace, kind,
                                          [i \in DOMAIN items |-> items[i].name], ""))
          /\ nsTodo' = next[1]
          /\ kindTodo' = IF next[1] = <<>> THEN <<>> ELSE next[2]
          /\ visited' = IF kindTodo = Kinds THEN Append(visited, namespace)
                        ELSE visited
          /\ faults' = IF o = "ok" THEN faults ELSE faults + 1
  /\ UNCHANGED <<now, objects, cms, MAX_BACKUPS_TO_RETAIN, stop, stoppedIn,
                 input, output, applied, pc, run_now_utc, last, hib, saved>>

\* the instant a schedule is checked at with the wall clock in place of the
\* now_utc of the pass
PassInstant_WallClock(captured, clock) == clock

\* the now_utc process_resources hands to process_single_resource: the instant
\* run_reconciliation captured, whatever the wall clock has come to
PassInstant(captured, clock) == captured

\* process_single_resource for the next listed item
ProcessItem ==
  /\ pc = "running"
  /\ itemTodo # <<>>
  /\ LET item == Head(itemTodo)
         id == Id(item.ns, item.kind, item.name)
         ann == ItemAnn(item)
         now_utc == PassInstant(run_now_utc, now)
         down == IsActive(ann.ks_scale_down, now_utc)
         up == IsActive(ann.ks_scale_up, now_utc)
         dir == IF ann.ks_scale = Disable THEN "skip"
                ELSE IF down THEN "down" ELSE IF up THEN "up" ELSE "none"
         w0 == [obj |-> objects, cms |-> cms, calls |-> <<>>]
         quiet == process_single_resource(w0, {}, item.ns,
                                          [name |-> item.name, ann |-> ann],
                                          item.kind, now_utc, now)
     IN \E plan \in {p \in AllPlans :
                       /\ Cardinality(p) <= Budget
                       /\ \A a \in p : a[1] <= Len(quiet.calls)} :
          \E w \in {process_single_resource(w0, plan, item.ns,
                                             [name |-> item.name, ann |-> ann],
                                             item.kind, now_utc, now)} :
          LET rest == AfterItem(w.calls, itemTodo)
              next == IF rest = <<>> THEN Advance(nsTodo, kindTodo)
                      ELSE <<nsTodo, kindTodo>>
          IN /\ \A a \in plan : a[1] <= Len(w.calls)
             /\ objects' = w.obj
             /\ cms' = w.cms
             /\ faults' = faults + Cardinality(plan)
             /\ last' = [id |-> id, dir |-> dir, at |-> now_utc, calls |-> w.calls,
                         ann |-> ann,
                         pre |-> objects[id],
                         preCms |-> Selected(cms, item.ns, item.kind, item.name),
                         down |-> down, up |-> up, hib |-> hib[id]]
             /\ hib' = [hib EXCEPT ![id] =
                          IF dir = "down"
                          THEN [n |-> @.n + 1,
                                orig |-> IF @.n = 0 THEN objects[id].spec ELSE @.orig,
                                fresh |-> IF @.n = 0
                                          THEN Selected(cms, item.ns, item.kind,
                                                        item.name) = {}
                                          ELSE @.fresh,
                                clean |-> @.clean /\ AllOk(w.calls)]
                          ELSE IF dir = "up" THEN NoHib ELSE @]
             /\ saved' = saved \o Created(w.calls)
             /\ applied' = [applied EXCEPT ![id] =
                              IF dir = "down" THEN <<>>
                              ELSE IF dir = "up" /\ ScalerArgs(w.calls) # <<>>
                                   THEN ScalerArgs(w.calls)
                              ELSE @]
             /\ itemTodo' = rest
             /\ trail' = Append(trail, Event("item",
                                             IF AllOk(w.calls) THEN "ok" ELSE "failed",
                                             item.ns, item.kind, <<item.name>>, dir))
             /\ nsTodo' = next[1]
             /\ kindTodo' = IF next[1] = <<>> THEN <<>> ELSE next[2]
  /\ UNCHANGED <<now, MAX_BACKUPS_TO_RETAIN, stop, stoppedIn, input, output, pc,
                 run_now_utc, visited>>

\* run_reconciliation returns; the thread enters reconciliation_stop_event.wait(60)
EndPass ==
  /\ pc = "running"
  /\ nsTodo = <<>>
  /\ itemTodo = <<>>
  /\ pc' = "waiting"
  /\ UNCHANGED <<now, objects, cms, MAX_BACKUPS_TO_RETAIN, stop, stoppedIn,
                 input, output, applied, run_now_utc, nsTodo, kindTodo,
                 itemTodo, faults, last, hib, visited, saved, trail>>

\* wait(60) times out: at least 60 seconds have passed
WaitTimeout ==
  /\ pc = "waiting"
  /\ ~stop
  /\ \E t \in (now + 1)..MaxTime :
       /\ Seconds(Instant(t)) - Seconds(Instant(now)) >= 60
       /\ \A u \in (now + 1)..(t - 1) :
            Seconds(Instant(u)) - Seconds(Instant(now)) < 60
       /\ now' = t
  /\ pc' = "check"
  /\ UNCHANGED <<objects, cms, MAX_BACKUPS_TO_RETAIN, stop, stoppedIn, input,
                 output, applied, run_now_utc, nsTodo, kindTodo, itemTodo,
                 faults, last, hib, visited, saved, trail>>

\* wait(60) returns at once because the stop event is set
WaitStopped ==
  /\ pc = "waiting"
  /\ stop
  /\ pc' = "check"
  /\ UNCHANGED <<now, objects, cms, MAX_BACKUPS_TO_RETAIN, stop, stoppedIn,
                 input, output, applied, run_now_utc, nsTodo, kindTodo,
                 itemTodo, faults, last, hib, visited, saved, trail>>

\* time passes while a pass is running: the wall clock is seen to move on
\* between two calls of process_resources
TimePasses ==
  /\ pc = "running"
  /\ now < MaxTime
  /\ now - run_now_utc < MaxDrift
  /\ kindTodo = Kinds
  /\ itemTodo = <<>>
  /\ now' = now + 1
  /\ UNCHANGED <<objects, cms, MAX_BACKUPS_TO_RETAIN, stop, stoppedIn, input,
                 output, applied, pc, run_now_utc, nsTodo, kindTodo, itemTodo,
                 faults, last, hib, visited, saved, trail>>

Next ==
  \/ SetStop
  \/ LoopExit
  \/ StartPass
  \/ ListKind
  \/ ProcessItem
  \/ EndPass
  \/ WaitTimeout
  \/ WaitStopped
  \/ TimePasses

Spec == Init /\ [][Next]_vars
(***************************************************************************)
(* The backup store on its own: backup_state is called for Deployment web  *)
(* at successive instants, over every retention limit and every number of  *)
(* snapshots that exist beforehand.                                        *)
(***************************************************************************)
\* int(os.environ.get('MAX_BACKUPS_TO_RETAIN', 5))
DefaultRetain == 5
StoreRetain == {-1, 0, 1, MaxRetain, DefaultRetain}

InitStore ==
  /\ now = 0
  /\ objects = Cluster(MaxReplicas)
  /\ \E k \in 0..MaxOld :
       cms = OldSnapshots(Web, k, [replicas |-> MaxReplicas])
             \cup OldSnapshots(Id(NsDev, "StatefulSet", "db"), 1, [replicas |-> 1])
  /\ MAX_BACKUPS_TO_RETAIN \in StoreRetain
  /\ stop = FALSE
  /\ pc = "store"
  /\ run_now_utc = 0
  /\ nsTodo = <<>>
  /\ kindTodo = <<>>
  /\ itemTodo = <<>>
  /\ faults = 0
  /\ last = NoLast
  /\ hib = [id \in Ids |-> NoHib]
  /\ visited = <<>>
  /\ saved = <<>>
  /\ trail = <<>>
  /\ stoppedIn = ""
  /\ input = NoInput
  /\ output = NoOutput
  /\ applied = [id \in Ids |-> <<>>]

\* backup_state(logger, 'dev', 'Deployment', 'web', state) at the wall clock
SaveSnapshot ==
  /\ pc = "store"
  /\ LET w0 == [obj |-> objects, cms |-> cms, calls |-> <<>>]
         state == [replicas |-> MaxReplicas]
         quiet == backup_state(w0, {}, Web.ns, Web.kind, Web.name, state, now)
     IN \E plan \in {p \in AllPlans :
                       /\ Cardinality(p) <= Budget
                       /\ \A a \in p : a[1] <= Len(quiet.w.calls)} :
          LET b == backup_state(w0, plan, Web.ns, Web.kind, Web.name, state, now)
          IN /\ \A a \in plan : a[1] <= Len(b.w.calls)
             /\ cms' = b.w.cms
             /\ faults' = faults + Cardinality(plan)
             /\ last' = [NoLast EXCEPT !.id = Web, !.dir = "save", !.at = now,
                                       !.calls = b.w.calls, !.pre = objects[Web],
                                       !.preCms = Selected(cms, Web.ns, Web.kind,
                                                           Web.name)]
             /\ saved' = saved \o Created(b.w.calls)
  /\ UNCHANGED <<now, objects, MAX_BACKUPS_TO_RETAIN, stop, stoppedIn, input,
                 output, applied, pc, run_now_utc, nsTodo, kindTodo, itemTodo,
                 hib, visited, trail>>

\* the wall clock moves on to the next instant
StoreTick ==
  /\ pc = "store"
  /\ now < MaxTime
  /\ now' = now + 1
  /\ UNCHANGED <<objects, cms, MAX_BACKUPS_TO_RETAIN, stop, stoppedIn, input,
                 output, applied, pc, run_now_utc, nsTodo, kindTodo, itemTodo,
                 faults, last, hib, visited, saved, trail>>

NextStore ==
  \/ SaveSnapshot
  \/ StoreTick

SpecStore == InitStore /\ [][NextStore]_vars

(***************************************************************************)
(* Properties.  `last` is the latest call of process_single_resource (or   *)
(* of backup_state, under SpecStore) with the calls it made, and the       *)
(* cluster is the one that call left behind.                               *)
(***************************************************************************)
IsMutation(c) == c.api \in {"patch", "delete", "create"}
LastSnapshots == Selected(cms, last.id.ns, last.id.kind, last.id.name)
Idle == Id(NsDev, "Deployment", "idle")
Hpa == Id(NsDev, "HorizontalPodAutoscaler", "web")
Nightly == Id(NsDev, "CronJob", "nightly")
Job == Id(NsDev, "CronJob", "job")
\* a replica count that is set and positive, or a suspend flag that is set
SetAndTruthy(spec) ==
  \/ "replicas" \in DOMAIN spec /\ spec.replicas >= 1
  \/ "suspend" \in DOMAIN spec /\ spec.suspend \in {"True", "False"}

\* C1: in every tick, a scale-down mutation (patch to 0 replicas, suspend,
\* delete of the autoscaler) is applied only after a snapshot of the state read
\* in that tick was stored successfully; a failed snapshot write means no
\* mutation.  Refuted: backup_state swallows the ApiException of the create and
\* process_single_resource goes on to scale down.
C1_BackupBeforeMutate ==
  last.dir = "down" =>
    \A i \in DOMAIN last.calls :
      (IsMutation(last.calls[i]) /\ last.calls[i].out = "ok") =>
        \E j \in 1..(i - 1) :
          /\ last.calls[j].api = "create_config_map"
          /\ last.calls[j].out = "ok"

\* C2: a Deployment, StatefulSet or CronJob scaled down on one or more ticks
\* (fewer than MAX_BACKUPS_TO_RETAIN, no scale-up in between, every call
\* succeeding) is returned by the next scale-up to the configuration it had
\* before the first of those ticks.  Refuted: the second scale-down tick
\* snapshots the hibernated state and the scale-up restores the latest snapshot.
C2_RestoresOriginal ==
  (/\ last.dir = "up"
   /\ last.id.kind \in {"Deployment", "StatefulSet", "CronJob"}
   /\ last.hib.n >= 1
   /\ last.hib.n < MAX_BACKUPS_TO_RETAIN
   /\ last.hib.clean
   /\ AllOk(last.calls)
   /\ faults = 0
   /\ SetAndTruthy(last.hib.orig))
  => objects[last.id].spec = last.hib.orig

\* C3: for a Deployment or StatefulSet with a set replica count N >= 0 and no
\* snapshot, a scale-down tick stores a snapshot with replicas = N and patches
\* the workload to 0, and the next scale-up tick patches it back to N.
\* Refuted for N = 0: the state read is `replicas or 1`.
C3_RoundTrip ==
  /\ (/\ last.dir = "down"
      /\ last.id.kind \in {"Deployment", "StatefulSet"}
      /\ last.pre.spec.replicas # NoneInt
      /\ last.preCms = {}
      /\ AllOk(last.calls))
     => /\ \E cm \in LastSnapshots :
             cm.data = json_dumps([replicas |-> last.pre.spec.replicas])
        /\ objects[last.id].spec.replicas = 0
  /\ (/\ last.dir = "up"
      /\ last.id.kind \in {"Deployment", "StatefulSet"}
      /\ last.hib.n = 1
      /\ last.hib.fresh
      /\ last.hib.clean
      /\ last.hib.orig.replicas # NoneInt
      /\ AllOk(last.calls))
     => objects[last.id].spec.replicas = last.hib.orig.replicas

\* C4: once a scale-down tick has saved the spec of a HorizontalPodAutoscaler
\* and deleted it, a later tick at its scale-up minute re-creates it.  Refuted:
\* the deleted autoscaler is no longer listed, so no later tick processes it.
C4_HpaRecreated ==
  (/\ pc = "waiting"
   /\ faults = 0
   /\ hib[Hpa].n >= 1
   /\ Selected(cms, Hpa.ns, Hpa.kind, Hpa.name) # {}
   /\ IsActive(AnnOf(Hpa).ks_scale_up, run_now_utc)
   /\ ~IsActive(AnnOf(Hpa).ks_scale_down, run_now_utc))
  => objects[Hpa].exists

\* the pruning pass of the latest save: whether it listed the snapshots, the
\* names it tried to delete, in order, and the snapshots it had to choose from
PruneListed ==
  \E i \in DOMAIN last.calls :
    /\ last.calls[i].fn = "prune_old_backups"
    /\ last.calls[i].api = "list_config_map"
    /\ last.calls[i].out = "ok"
DeleteCalls == SelectSeq(last.calls, LAMBDA c : c.api = "delete_config_map")
Attempted == [i \in DOMAIN DeleteCalls |-> DeleteCalls[i].arg.cm]
Listed == {cm.name : cm \in last.preCms} \cup Range(Created(last.calls))
Surplus ==
  IF Cardinality(Listed) > MAX_BACKUPS_TO_RETAIN
  THEN Cardinality(Listed) - MAX_BACKUPS_TO_RETAIN
  ELSE 0
\* the n names that come last in a sequence
LastN(seq, n) == {seq[i] : i \in {j \in DOMAIN seq : j > Len(seq) - n}}

IsDownCall(c) ==
  \/ c.api \in {"read", "create_config_map", "delete_config_map"}
  \/ c.fn = "prune_old_backups"
  \/ IsMutation(c) /\ c.arg.direction = "down"
IsUpCall(c) ==
  \/ c.fn = "find_latest_backup_state"
  \/ IsMutation(c) /\ c.arg.direction = "up"

\* C7: one tick acts on a resource in at most one direction, and when both its
\* schedules match the tick's instant only the scale-down path runs for it:
\* state read, snapshot, down mutation, and no restore or scale-up mutation.
C7_OneDirection ==
  /\ ~(\E i \in DOMAIN last.calls, j \in DOMAIN last.calls :
         IsDownCall(last.calls[i]) /\ IsUpCall(last.calls[j]))
  /\ (last.down /\ last.up /\ last.ann.ks_scale # Disable)
     => /\ \A i \in DOMAIN last.calls : ~IsUpCall(last.calls[i])
        /\ last.calls # <<>>
        /\ last.calls[1].api = "read"
        /\ AllOk(last.calls)
           => /\ Len(last.calls) >= 3
              /\ last.calls[2].api = "create_config_map"
              /\ IsMutation(last.calls[Len(last.calls)])
              /\ last.calls[Len(last.calls)].arg.direction = "down"

\* CronJob job at Friday 09:01, when both of its schedules match, suspended
C7_Witness ==
  /\ last.id = Job
  /\ last.down
  /\ last.up
  /\ AllOk(last.calls)
  /\ objects[Job].spec.suspend = "True"
  /\ \E i \in DOMAIN last.calls :
       IsMutation(last.calls[i]) /\ last.calls[i].arg.direction = "down"

\* C8: when the scale-up schedule of a resource is active and no snapshot of it
\* exists, the tick makes no patch, create or delete on it and leaves it as it
\* was: no default replica count or suspend flag is applied.
C8_NoSnapshotNoMutation ==
  (/\ last.up
   /\ ~last.down
   /\ last.ann.ks_scale # Disable
   /\ last.preCms = {})
  => /\ \A i \in DOMAIN last.calls : ~IsMutation(last.calls[i])
     /\ objects[last.id] = last.pre
     /\ LastSnapshots = {}

\* CronJob nightly at its scale-up minute, with no snapshot: the snapshots were
\* listed and nothing else was done
C8_Witness ==
  /\ last.id = Nightly
  /\ last.up
  /\ ~last.down
  /\ last.preCms = {}
  /\ Len(last.calls) = 1
  /\ last.calls[1].fn = "find_latest_backup_state"
  /\ last.calls[1].out = "ok"

\* a namespace barred from processing: named kube-..., or annotated ks_scale: Disable
Barred(ns) == Take(ns.name, 5) = KubePrefix \/ ns.ks_scale = Disable
BarredNames ==
  {NamespaceList[i].name : i \in {j \in DOMAIN NamespaceList : Barred(NamespaceList[j])}}
OpenNames ==
  LET open == SelectSeq(NamespaceList, LAMBDA ns : ~Barred(ns))
  IN [i \in DOMAIN open |-> open[i].name]

\* C9: the namespaces processed are exactly those not named kube-... and not
\* annotated Disable, in the order list_namespace returned them; no workload of
\* any other namespace is ever mutated and no snapshot is written or deleted
\* there.
C9_Eligibility ==
  /\ Len(visited) <= Len(OpenNames)
  /\ visited = SubSeq(OpenNames, 1, Len(visited))
  /\ (pc = "waiting" /\ faults = 0) => visited = OpenNames
  /\ last.id.ns \notin BarredNames
  /\ \A id \in Ids :
       id.ns \in BarredNames
         => objects[id] = [exists |-> TRUE, annotated |-> TRUE,
                           spec |-> [replicas |-> 1]]
  /\ {cm \in cms : cm.ns \in BarredNames}
       = OldSnapshots(Id(NsKubeSystem, "Deployment", "dns"), 1, [replicas |-> 1])

\* a pass at Friday 09:00, when the scale-down schedules of the workloads of
\* kube-system and of the Disable-annotated namespace match, has processed dev
\* and kubeflow and scaled down in both
C9_Witness ==
  /\ pc = "waiting"
  /\ run_now_utc = 0
  /\ visited = <<NsDev, NsKubeflow>>
  /\ objects[Web].spec.replicas = 0
  /\ objects[Id(NsKubeflow, "Deployment", "api")].spec.replicas = 0
  /\ IsActive(AnnOf(Id(NsKubeSystem, "Deployment", "dns")).ks_scale_down, run_now_utc)
  /\ IsActive(AnnOf(Id(NsOff, "StatefulSet", "cache")).ks_scale_down, run_now_utc)

\* C10: a resource annotated ks_scale: Disable is skipped entirely, whatever
\* its schedules and the instant: no call is made for it (no read, no snapshot
\* written or pruned, no patch, delete or create) and it stays as it was.
C10_DisabledSkipped ==
  /\ last.ann.ks_scale = Disable
     => /\ last.calls = <<>>
        /\ objects[last.id] = last.pre
        /\ LastSnapshots = last.preCms
  /\ objects[Idle] = [exists |-> TRUE, annotated |-> TRUE, spec |-> [replicas |-> 1]]
  /\ Selected(cms, Idle.ns, Idle.kind, Idle.name) = {}

\* Deployment idle, annotated Disable, reached at its scale-down minute and
\* again at its scale-up minute
C10_Witness ==
  /\ last.id = Idle
  /\ last.ann.ks_scale = Disable
  /\ last.up
  /\ hib[Web].n >= 1
  /\ last.calls = <<>>

(***************************************************************************)
(* Failures inside a pass.                                                 *)
(***************************************************************************)
\* the list calls a pass owes: every kind of every eligible namespace, in order
DueLists ==
  LET eligible == get_eligible_namespaces(NamespaceList, "ok")
  IN [i \in 1..(Len(eligible) * Len(Kinds)) |->
        <<eligible[((i - 1) \div Len(Kinds)) + 1], Kinds[((i - 1) % Len(Kinds)) + 1]>>]
\* the list calls the pass made
ListEvents == SelectSeq(trail, LAMBDA e : e.ev = "list")
PassDone == pc # "running" /\ trail # <<>> /\ trail[1].out = "ok"
FailedList(i) == trail[i].ev = "list" /\ trail[i].out # "ok"
FailedItem(i) == trail[i].ev = "item" /\ trail[i].out # "ok"

\* C11: when listing one kind in one namespace fails (ApiException or any
\* other exception), no item of that kind is processed for that namespace,
\* and the pass still lists every remaining kind of the namespace and every
\* kind of every remaining eligible namespace: a finished pass has made
\* exactly the list calls it owes, in order.
C11_ListFailureSkipsKind ==
  /\ \A i \in DOMAIN trail :
       FailedList(i) => trail[i].items = <<>>
                        /\ (i < Len(trail) => trail[i + 1].ev = "list")
  /\ PassDone =>
       [i \in DOMAIN ListEvents |-> <<ListEvents[i].ns, ListEvents[i].kind>>] = DueLists

\* the Deployments of dev could not be listed at Fri 09:00; StatefulSet db of
\* dev and Deployment api of kubeflow were scaled down later in the same pass
C11_Witness ==
  /\ PassDone
  /\ \E i \in DOMAIN trail :
       /\ FailedList(i)
       /\ trail[i].ns = NsDev
       /\ trail[i].kind = "Deployment"
       /\ \E j, k \in (i + 1)..Len(trail) :
            /\ trail[j].ev = "item" /\ trail[j].ns = NsDev
            /\ trail[j].dir = "down" /\ trail[j].out = "ok"
            /\ trail[k].ev = "item" /\ trail[k].ns = NsKubeflow
            /\ trail[k].dir = "down" /\ trail[k].out = "ok"
  /\ objects[Web].spec.replicas = MaxReplicas
  /\ objects[Id(NsDev, "StatefulSet", "db")].spec.replicas = 0
  /\ objects[Id(NsKubeflow, "Deployment", "api")].spec.replicas = 0

\* C12: a failure while one resource is processed (its state read, the
\* snapshot write, the snapshot list, a prune delete or the scale call
\* failing) does not end the pass: every item a list call returned is
\* processed, in the order listed, and a finished pass has made every list
\* call it owes.
C12_ItemFailureIsolated ==
  /\ \A i \in DOMAIN trail :
       (trail[i].ev = "list" /\ trail[i].out = "ok") =>
         \A j \in DOMAIN trail[i].items :
           /\ i + j > Len(trail) => pc = "running" /\ Len(itemTodo) > i + j - Len(trail) - 1
           /\ i + j <= Len(trail) =>
                /\ trail[i + j].ev = "item"
                /\ trail[i + j].ns = trail[i].ns
                /\ trail[i + j].kind = trail[i].kind
                /\ trail[i + j].items = <<trail[i].items[j]>>
  /\ PassDone => Len(ListEvents) = Len(DueLists)

\* CronJob job failed at Fri 09:01 and CronJob nightly, listed after it, was
\* still processed; or Deployment web failed at Fri 09:00 and StatefulSet db
\* and Deployment api of kubeflow were scaled down later in the same pass
C12_Witness ==
  /\ PassDone
  /\ \E i \in DOMAIN trail :
       /\ FailedItem(i)
       /\ trail[i].ns = NsDev
       /\ trail[i].kind = "Deployment"
       /\ trail[i].dir = "down"
       /\ \E j, k \in (i + 1)..Len(trail) :
            /\ trail[j].ev = "item" /\ trail[j].ns = NsDev
            /\ trail[j].kind = "StatefulSet"
            /\ trail[j].dir = "down" /\ trail[j].out = "ok"
            /\ trail[k].ev = "item" /\ trail[k].ns = NsKubeflow
            /\ trail[k].dir = "down" /\ trail[k].out = "ok"
  /\ objects[Id(NsDev, "StatefulSet", "db")].spec.replicas = 0
  /\ objects[Id(NsKubeflow, "Deployment", "api")].spec.replicas = 0

\* the same within one kind: CronJob job fails at Fri 09:01 and CronJob
\* nightly, listed after it, is still reached
C12_WitnessSameKind ==
  /\ PassDone
  /\ \E i \in DOMAIN trail :
       /\ FailedItem(i)
       /\ trail[i].kind = "CronJob"
       /\ trail[i].items = <<"job">>
       /\ i < Len(trail)
       /\ trail[i + 1].ev = "item"
       /\ trail[i + 1].items = <<"nightly">>

(***************************************************************************)
(* The reconciliation thread with its scheduling, and the exit of the      *)
(* process: cleanup sets the stop event and joins the thread for at most   *)
(* five seconds; the thread is a daemon thread, so it ends with the        *)
(* process if it is still inside a pass when the join gives up.            *)
(***************************************************************************)
InitLoop ==
  /\ Init
  /\ objects = Cluster(MaxReplicas)
  /\ MAX_BACKUPS_TO_RETAIN = MaxRetain

\* reconciliation_thread.join(timeout=5) gives up during a pass and the
\* interpreter exits: the daemon thread ends where it is
ProcessExit ==
  /\ stop
  /\ pc = "running"
  /\ pc' = "killed"
  /\ UNCHANGED <<now, objects, cms, MAX_BACKUPS_TO_RETAIN, stop, stoppedIn,
                 input, output, applied, run_now_utc, nsTodo, kindTodo,
                 itemTodo, faults, last, hib, visited, saved, trail>>

\* the steps of the thread itself
Thread ==
  \/ LoopExit
  \/ StartPass
  \/ ListKind
  \/ ProcessItem
  \/ EndPass
  \/ WaitTimeout
  \/ WaitStopped

NextLoop ==
  \/ Next
  \/ ProcessExit

\* the thread is scheduled while it can take a step: every client call
\* returns or raises, and wait(60) returns
SpecLoop == InitLoop /\ [][NextLoop]_vars /\ WF_vars(Thread)

\* the model's clock still holds an instant 60 seconds or more ahead
HorizonLeft ==
  \E t \in (now + 1)..MaxTime : Seconds(Instant(t)) - Seconds(Instant(now)) >= 60

\* C13: an error raised during a pass does not end the loop: while the stop
\* event is not set the thread has not left the loop, and after every pass,
\* failed or not, another pass starts unless the stop event is set first.
C13_LoopSurvivesErrors ==
  /\ [](~stop => pc \in {"check", "running", "waiting"})
  /\ (pc = "waiting" /\ HorizonLeft) ~> (pc = "running" \/ stop)

\* a pass running after an earlier pass met a failing call
C13_Witness ==
  /\ pc = "running"
  /\ ~stop
  /\ run_now_utc > 0
  /\ faults >= 1
  /\ visited # <<>>
  /\ \A i \in DOMAIN trail : trail[i].out = "ok"

\* the pass at hand has made every list call it owes
PassComplete ==
  /\ trail # <<>>
  /\ trail[1].out = "ok" => Len(ListEvents) = Len(DueLists)
  /\ nsTodo = <<>>
  /\ itemTodo = <<>>

\* C14: shutdown is cooperative. Once the stop event is set no pass is
\* started; wait(60) returns at once, the clock where it was; a pass in
\* flight goes on, and is cut short only by the process exiting when the
\* five-second join of cleanup gives up; the thread then either leaves the
\* loop, the pass in flight completed, or has ended with the process.
C14_CooperativeShutdown ==
  /\ [][stop => ~(pc # "running" /\ pc' = "running")]_vars
  /\ [][(stop /\ pc = "waiting" /\ pc' # pc) => (pc' = "check" /\ now' = now)]_vars
  /\ [][(pc = "running" /\ pc' \notin {"running", "waiting"})
          => (stop /\ pc' = "killed")]_vars
  /\ []((pc = "exited" /\ stoppedIn = "running") => PassComplete)
  /\ stop ~> (pc = "exited" \/ pc = "killed")

\* the stop event was set during a pass; the pass ran to its end, wait(60)
\* returned at once and the loop was left
C14_Witness ==
  /\ pc = "exited"
  /\ stop
  /\ stoppedIn = "running"
  /\ PassComplete
  /\ trail[1].out = "ok"
  /\ now = run_now_utc
  /\ \E i \in DOMAIN trail : trail[i].ev = "item" /\ trail[i].dir = "down"

\* the statement without the bound of the join: a pass in flight always runs
\* to completion
C14_PassRunsToCompletion ==
  [][pc = "running" => pc' \in {"running", "waiting"}]_vars

(***************************************************************************)
(* The cadence of the loop.                                                *)
(***************************************************************************)
\* the seconds the pass at hand has taken so far
PassSeconds == Seconds(Instant(now)) - Seconds(Instant(run_now_utc))

\* C15: passes never overlap (a pass starts only from the loop condition,
\* the pass before it finished), and after a pass that took longer than the
\* 60 seconds of the interval the next pass starts with no further wait: the
\* thread leaves wait(60) with the clock where the pass ended.
C15_NoWaitAfterLongPass ==
  /\ [][(pc # "running" /\ pc' = "running")
          => (pc = "check" /\ nsTodo = <<>> /\ itemTodo = <<>>)]_vars
  /\ [][(pc = "waiting" /\ PassSeconds > 60 /\ pc' # pc) => now' = now]_vars

(***************************************************************************)
(* parse_schedule and is_schedule_active on their own: a schedule          *)
(* annotation is put together from tokens and handed to each of them.      *)
(***************************************************************************)
Tok2026 == <<"2", "0", "2", "6">>
Tok2025 == <<"2", "0", "2", "5">>
TokDec == <<"D", "e", "c">>
TokJanDecember == <<"j", "a", "n", ",", " ", "D", "e", "c", "e", "m", "b", "e", "r">>
TokFri == <<"F", "r", "i">>
TokSatSun == <<"s", "a", "t", ",", "s", "u", "n">>
Tok13 == <<"1", "3">>
Tok11or13 == <<"1", "1", ",", "1", "3">>
Tok12 == <<"1", "2">>

\* the annotation value: the tokens with ";" between them
RECURSIVE Join(_, _)
Join(tokens, sep) ==
  IF tokens = <<>> THEN <<>>
  ELSE IF Len(tokens) = 1 THEN tokens[1]
  ELSE tokens[1] \o <<sep>> \o Join(Tail(tokens), sep)

\* the tokens of 2026;Dec;Fri;13;09:00
ExampleTokens == {Tok2026, TokDec, TokFri, Tok13, T0900}
MaxTokens == 5
\* every ordering of every choice of the example's tokens
Orderings ==
  {s \in UNION {[1..n -> ExampleTokens] : n \in 0..MaxTokens} :
     \A i, j \in DOMAIN s : i # j => s[i] # s[j]}

\* one token or none for each field, in the order of the example
Choices ==
  {SelectSeq(<<y, m, d, dt, t>>, LAMBDA tok : tok # <<>>) :
     y \in {<<>>, Tok2026, Tok2025},
     m \in {<<>>, TokDec, TokJanDecember},
     d \in {<<>>, TokFri, TokSatSun},
     dt \in {<<>>, Tok11or13, Tok12},
     t \in {<<>>, T0900, T0901}}

InitSchedule ==
  /\ input \in [tokens : Orderings \cup Choices, at : 0..MaxTime]
  /\ output = NoOutput
  /\ applied = [id \in Ids |-> <<>>]
  /\ pc = "schedule"
  /\ now = 0
  /\ objects = Cluster(MaxReplicas)
  /\ cms = {}
  /\ MAX_BACKUPS_TO_RETAIN = DefaultRetain
  /\ stop = FALSE
  /\ run_now_utc = 0
  /\ nsTodo = <<>>
  /\ kindTodo = <<>>
  /\ itemTodo = <<>>
  /\ faults = 0
  /\ last = NoLast
  /\ hib = [id \in Ids |-> NoHib]
  /\ visited = <<>>
  /\ saved = <<>>
  /\ trail = <<>>
  /\ stoppedIn = ""

\* parse_schedule(schedule_annotation)
ParseSchedule ==
  /\ pc = "schedule"
  /\ output' = [spec |-> parse_schedule(Join(input.tokens, ";")), active |-> FALSE]
  /\ pc' = "parsed"
  /\ UNCHANGED <<input, applied, now, objects, cms, MAX_BACKUPS_TO_RETAIN, stop,
                 run_now_utc, nsTodo, kindTodo, itemTodo, faults, last, hib,
                 visited, saved, trail, stoppedIn>>

\* is_schedule_active(schedule_annotation, now_utc)
CheckActive ==
  /\ pc = "schedule"
  /\ output' = [spec |-> parse_schedule(Join(input.tokens, ";")),
                active |-> is_schedule_active(Join(input.tokens, ";"),
                                              Instant(input.at))]
  /\ pc' = "checked"
  /\ UNCHANGED <<input, applied, now, objects, cms, MAX_BACKUPS_TO_RETAIN, stop,
                 run_now_utc, nsTodo, kindTodo, itemTodo, faults, last, hib,
                 visited, saved, trail, stoppedIn>>

NextSchedule ==
  \/ ParseSchedule
  \/ CheckActive

SpecSchedule == InitSchedule /\ [][NextSchedule]_vars

\* the field a set of tokens gives: the lowercased token of the class, or "*"
FieldOf(tokens, tok) == IF tok \in Range(tokens) THEN Lower(tok) ELSE Star
TimeLast(tokens) == tokens # <<>> /\ tokens[Len(tokens)] = T0900

\* C16: for the tokens of 2026;Dec;Fri;13;09:00 in any number and any
\* order, the year, month, day-of-week and day-of-month fields of the parsed
\* schedule depend only on which tokens are there, not on where they stand;
\* the time token is read as the time only where it is the final token, and
\* is dropped anywhere else.
C16_OrderFreeButTime ==
  (pc = "parsed" /\ input.tokens \in Orderings) =>
    output.spec = [year |-> FieldOf(input.tokens, Tok2026),
                   month |-> FieldOf(input.tokens, TokDec),
                   day |-> FieldOf(input.tokens, TokFri),
                   date |-> FieldOf(input.tokens, Tok13),
                   time |-> IF TimeLast(input.tokens) THEN T0900 ELSE None]

\* 13;Fri;Dec;2026;09:00 parsed to year 2026, month dec, day fri, date 13,
\* time 09:00
C16_Witness ==
  /\ pc = "parsed"
  /\ input.tokens = <<Tok13, TokFri, TokDec, Tok2026, T0900>>
  /\ output.spec = [year |-> Tok2026, month |-> Lower(TokDec), day |-> Lower(TokFri),
                    date |-> Tok13, time |-> T0900]

\* the statement for every ordering, the time token included
C16_OrderFree ==
  (pc = "parsed" /\ input.tokens \in Orderings) =>
    output.spec = [year |-> FieldOf(input.tokens, Tok2026),
                   month |-> FieldOf(input.tokens, TokDec),
                   day |-> FieldOf(input.tokens, TokFri),
                   date |-> FieldOf(input.tokens, Tok13),
                   time |-> IF T0900 \in Range(input.tokens) THEN T0900 ELSE None]

\* the alternatives of a comma list
Alternatives(field) == {Strip(x) : x \in Range(Split(field, ","))}
\* the instant the schedule at hand is checked at
CheckedAt == Instant(input.at)
TimeOk ==
  /\ output.spec.time # None
  /\ output.spec.time = Pad2(CheckedAt.hour) \o <<":">> \o Pad2(CheckedAt.minute)
YearOk ==
  output.spec.year = Star \/ output.spec.year = <<"2", "0", "2", "6">>
MonthOk ==
  \/ output.spec.month = Star
  \/ \E alt \in Alternatives(output.spec.month) :
       StartsWith(MonthAbbr[CheckedAt.month], Take(alt, 3))
DayOk ==
  \/ output.spec.day = Star
  \/ \E alt \in Alternatives(output.spec.day) :
       StartsWith(WeekdayAbbr[CheckedAt.weekday + 1], Take(alt, 3))
DateOk ==
  \/ output.spec.date = Star
  \/ Str(CheckedAt.day) \in Alternatives(output.spec.date)
NoTimeToken == \A i \in DOMAIN input.tokens : ":" \notin Range(input.tokens[i])

\* C17: a schedule is active at an instant exactly when its time is there
\* and equals the instant's HH:MM and each of year, month, day of week and
\* day of month is "*" or matches the instant, a comma list matching when one
\* of its alternatives does; a schedule with no time token is active at no
\* instant.
C17_ActiveIffAllFive ==
  pc = "checked" =>
    /\ output.active <=> (TimeOk /\ YearOk /\ MonthOk /\ DayOk /\ DateOk)
    /\ NoTimeToken => ~output.active

\* 2026;jan, December;Fri;11,13;09:00 is active on Friday 11 December 2026
\* at 09:00:20
C17_Witness ==
  /\ pc = "checked"
  /\ input.tokens = <<Tok2026, TokJanDecember, TokFri, Tok11or13, T0900>>
  /\ input.at = 1
  /\ output.active

\* 2026;Dec;Fri;11,13 has no time and is not active at 09:00 of that Friday
C17_WitnessNoTime ==
  /\ pc = "checked"
  /\ input.tokens = <<Tok2026, TokDec, TokFri, Tok11or13>>
  /\ input.at = 0
  /\ YearOk /\ MonthOk /\ DayOk /\ DateOk
  /\ ~output.active

\* the same in the loop: StatefulSet batch of kubeflow, whose two schedules
\* have no time token, is listed in every pass and never read, snapshotted
\* or scaled
Batch == Id(NsKubeflow, "StatefulSet", "batch")
C17_NoTimeNeverActs ==
  /\ objects[Batch] = [exists |-> TRUE, annotated |-> TRUE, spec |-> [replicas |-> 1]]
  /\ Selected(cms, Batch.ns, Batch.kind, Batch.name) = {}
  /\ last.id = Batch => (last.calls = <<>> /\ last.dir = "none")

C17_WitnessLoop ==
  /\ last.id = Batch
  /\ last.at = 0
  /\ objects[Id(NsKubeflow, "Deployment", "api")].spec.replicas = 0

(***************************************************************************)
(* The names of the snapshots.                                             *)
(***************************************************************************)
\* the characters of the kinds and resource names of the model
Chars(word) ==
  CASE word = "deployment" -> <<"d", "e", "p", "l", "o", "y", "m", "e", "n", "t">>
    [] word = "statefulset" -> <<"s", "t", "a", "t", "e", "f", "u", "l", "s", "e", "t">>
    [] word = "horizontalpodautoscaler" ->
         <<"h", "o", "r", "i", "z", "o", "n", "t", "a", "l", "p", "o", "d",
           "a", "u", "t", "o", "s", "c", "a", "l", "e", "r">>
    [] word = "cronjob" -> <<"c", "r", "o", "n", "j", "o", "b">>
    [] word = "idle" -> <<"i", "d", "l", "e">>
    [] word = "web" -> <<"w", "e", "b">>
    [] word = "db" -> <<"d", "b">>
    [] word = "job" -> <<"j", "o", "b">>
    [] word = "nightly" -> <<"n", "i", "g", "h", "t", "l", "y">>
    [] word = "dns" -> <<"d", "n", "s">>
    [] word = "cache" -> <<"c", "a", "c", "h", "e">>
    [] word = "api" -> <<"a", "p", "i">>
    [] word = "batch" -> <<"b", "a", "t", "c", "h">>
    [] OTHER -> <<>>
\* strftime('%Y%m%d-%H%M%S') of the second t of December 2026
Timestamp(t) ==
  <<"2", "0", "2", "6", "1", "2">> \o Pad2(t \div 86400) \o <<"-">>
    \o Pad2((t \div 3600) % 24) \o Pad2((t \div 60) % 60) \o Pad2(t % 60)
\* f"{CONFIGMAP_PREFIX}-{kind.lower()}-{name}-{now_utc_str}"
NameText(n) ==
  <<"k", "s", "-", "b", "a", "c", "k", "u", "p", "-">> \o Chars(n[1]) \o <<"-">>
    \o Chars(n[2]) \o <<"-">> \o Timestamp(n[3])
CreateCalls ==
  SelectSeq(last.calls, LAMBDA c : c.api = "create_config_map")

\* C18: no two saves of the controller give the same ConfigMap name: the
\* names written out in full are pairwise different, over the saves made so
\* far and over the ConfigMaps of each namespace, and no create call is
\* refused because its name is taken.
C18_NamesUnique ==
  /\ \A i, j \in DOMAIN saved : i # j => NameText(saved[i]) # NameText(saved[j])
  /\ \A c, d \in cms : (c.ns = d.ns /\ NameText(c.name) = NameText(d.name)) => c = d
  /\ \A i \in DOMAIN CreateCalls : CreateCalls[i].out # "409"

\* Deployment web saved on Friday and again on Saturday, and two resources
\* saved in the same second
C18_Witness ==
  /\ \E i, j \in DOMAIN saved :
       /\ i < j
       /\ saved[i][1] = saved[j][1] /\ saved[i][2] = saved[j][2]
       /\ saved[i][3] # saved[j][3]
  /\ \E i, j \in DOMAIN saved :
       /\ i < j
       /\ saved[i][3] = saved[j][3]
       /\ saved[i][2] = saved[j][2]
       /\ saved[i][1] # saved[j][1]
  /\ \A i \in DOMAIN saved : Len(NameText(saved[i])) > 25 + Len(Chars(saved[i][1]))

(***************************************************************************)
(* Pruning switched off.                                                   *)
(***************************************************************************)
\* C19: with MAX_BACKUPS_TO_RETAIN zero or negative no snapshot is ever
\* deleted, prune_old_backups makes no call at all, and every save that
\* succeeds leaves the resource with one snapshot more than it had.
C19_PruningDisabled ==
  /\ [][MAX_BACKUPS_TO_RETAIN <= 0 => cms \subseteq cms']_vars
  /\ [](MAX_BACKUPS_TO_RETAIN <= 0 =>
          /\ \A i \in DOMAIN last.calls : last.calls[i].fn # "prune_old_backups"
          /\ Created(last.calls) # <<>>
               => Cardinality(LastSnapshots) = Cardinality(last.preCms) + 1)

\* limit -1: Deployment web, which had MaxOld snapshots, was saved on Friday
\* and again on Saturday and has them all
C19_Witness ==
  /\ MAX_BACKUPS_TO_RETAIN < 0
  /\ last.id = Web
  /\ last.dir = "down"
  /\ Created(last.calls) # <<>>
  /\ Cardinality(last.preCms) = MaxOld + 1
  /\ Cardinality(Selected(cms, Web.ns, Web.kind, Web.name)) = MaxOld + 2

\* limit 0: the same for a Deployment web that had no snapshot
C19_WitnessZero ==
  /\ MAX_BACKUPS_TO_RETAIN = 0
  /\ last.id = Web
  /\ last.dir = "down"
  /\ Created(last.calls) # <<>>
  /\ Cardinality(Selected(cms, Web.ns, Web.kind, Web.name)) = 2

(***************************************************************************)
(* The scale-up path and the snapshots.                                    *)
(***************************************************************************)
\* the snapshot with the greatest creation timestamp among those given
Greatest(S) == CHOOSE c \in S : \A d \in S : d.created <= c.created
\* the step is process_single_resource taking the scale-up branch
UpStep ==
  /\ Len(trail') = Len(trail) + 1
  /\ trail'[Len(trail')].ev = "item"
  /\ trail'[Len(trail')].dir = "up"
\* the snapshots of the resource the step is for, before the step
UpSelected == Selected(cms, last'.id.ns, last'.id.kind, last'.id.name)
\* the scale-up branch run with no snapshot but the newest one in the store
UpWithNewestOnly ==
  ScaleUpBranch([obj |-> objects,
                 cms |-> IF UpSelected = {} THEN {} ELSE {Greatest(UpSelected)},
                 calls |-> <<>>],
                {}, last'.id.ns, last'.id.name, last'.id.kind)
IsPrefix(s, t) == Len(s) <= Len(t) /\ SubSeq(t, 1, Len(s)) = s

\* C20: a scale-up tick leaves the snapshots as they are and hands the
\* scaler what it would with only the newest snapshot of the resource in the
\* store; scale-up ticks with no scale-down tick between them hand the scaler
\* the same state; and a snapshot keeps its payload for as long as it exists.
C20_RestoreLeavesStore ==
  /\ [][UpStep =>
          /\ cms' = cms
          /\ \A i \in DOMAIN last'.calls :
               last'.calls[i].api \notin {"create_config_map", "delete_config_map"}
          /\ IsPrefix(ScalerArgs(last'.calls), ScalerArgs(UpWithNewestOnly.calls))]_vars
  /\ [][\A id \in Ids :
          (applied[id] # <<>> /\ applied'[id] # <<>>)
            => (IsPrefix(applied[id], applied'[id])
                \/ IsPrefix(applied'[id], applied[id]))]_vars
  /\ [][\A c \in cms : \A d \in cms' :
          (c.ns = d.ns /\ c.name = d.name) => c = d]_vars

\* StatefulSet db, saved on Friday 09:00, is scaled up at 09:01 on Friday and
\* again on Saturday from the same snapshot, which is still as it was saved
C20_Witness ==
  /\ last.id = Id(NsDev, "StatefulSet", "db")
  /\ last.dir = "up"
  /\ last.at > SlotsPerDay
  /\ last.hib.n = 0
  /\ applied[last.id] # <<>>
  /\ applied[last.id] = ScalerArgs(last.calls)
  /\ Cardinality(last.preCms) = 1
  /\ LastSnapshots = last.preCms
  /\ objects[last.id].spec.replicas >= 1

(***************************************************************************)
(* The scale-up path over a store that others can write to: the snapshots  *)
(* of one resource are ConfigMaps, and each may hold the saved state under *)
(* the key <kind>-<name>, a payload under another key, no data at all, or  *)
(* text that json.loads rejects.  process_single_resource is called for    *)
(* the resource at successive instants.                                    *)
(***************************************************************************)
Shapes == {"good", "nokey", "nodata", "malformed"}
\* snapshots of the resource that exist beforehand
MaxSnapshots == MaxOld + 1
RestoreTargets == {Web, Id(NsDev, "StatefulSet", "db"), Hpa, Job, Nightly}
\* what the state getter returns for the running workload
SavedState(id) ==
  StateGetter(id.kind, [obj |-> Cluster(MaxReplicas), cms |-> {}, calls |-> <<>>],
              {}, id.ns, id.name).ret
\* the cluster with the workload scaled down
Hibernated(id) ==
  Scaler(id.kind, [obj |-> Cluster(MaxReplicas), cms |-> {}, calls |-> <<>>],
         {}, id.ns, id.name, "down", NoState).w.obj
\* the i-th snapshot of the resource, labelled as backup_state labels it
Snapshot(id, i, shape) ==
  [ns |-> id.ns, name |-> <<KindLower(id.kind), id.name, i>>, kind |-> id.kind,
   rname |-> id.name, created |-> i,
   key |-> CASE shape = "nokey" -> <<KindLower(id.kind), "other">>
             [] shape = "nodata" -> <<>>
             [] OTHER -> <<KindLower(id.kind), id.name>>,
   data |-> IF shape = "malformed" THEN Malformed ELSE json_dumps(SavedState(id))]

InitRestore ==
  /\ now = 0
  /\ \E id \in RestoreTargets :
       \E shapes \in UNION {[1..n -> Shapes] : n \in 0..MaxSnapshots} :
         /\ objects = Hibernated(id)
         /\ cms = {Snapshot(id, i, shapes[i]) : i \in DOMAIN shapes}
                  \cup {Snapshot(Id(NsKubeSystem, "Deployment", "dns"),
                                 MaxSnapshots + 1, "good")}
         /\ itemTodo = <<[ns |-> id.ns, kind |-> id.kind, name |-> id.name,
                          annotated |-> TRUE]>>
  /\ MAX_BACKUPS_TO_RETAIN = DefaultRetain
  /\ stop = FALSE
  /\ pc = "restore"
  /\ run_now_utc = 0
  /\ nsTodo = <<>>
  /\ kindTodo = <<>>
  /\ faults = 0
  /\ last = NoLast
  /\ hib = [id \in Ids |-> NoHib]
  /\ visited = <<>>
  /\ saved = <<>>
  /\ trail = <<>>
  /\ stoppedIn = ""
  /\ input = NoInput
  /\ output = NoOutput
  /\ applied = [id \in Ids |-> <<>>]

\* process_single_resource for the resource, with now_utc the wall clock
RestoreItem ==
  /\ pc = "restore"
  /\ LET item == Head(itemTodo)
         id == Id(item.ns, item.kind, item.name)
         ann == ItemAnn(item)
         down == IsActive(ann.ks_scale_down, now)
         up == IsActive(ann.ks_scale_up, now)
         dir == IF ann.ks_scale = Disable THEN "skip"
                ELSE IF down THEN "down" ELSE IF up THEN "up" ELSE "none"
         w0 == [obj |-> objects, cms |-> cms, calls |-> <<>>]
         quiet == process_single_resource(w0, {}, item.ns,
                                          [name |-> item.name, ann |-> ann],
                                          item.kind, now, now)
     IN \E plan \in {p \in AllPlans :
                       /\ Cardinality(p) <= Budget
                       /\ \A a \in p : a[1] <= Len(quiet.calls)} :
          \E w \in {process_single_resource(w0, plan, item.ns,
                                             [name |-> item.name, ann |-> ann],
                                             item.kind, now, now)} :
            /\ \A a \in plan : a[1] <= Len(w.calls)
            /\ objects' = w.obj
            /\ cms' = w.cms
            /\ faults' = faults + Cardinality(plan)
            /\ run_now_utc' = now
            /\ last' = [id |-> id, dir |-> dir, at |-> now, calls |-> w.calls,
                        ann |-> ann,
                        pre |-> objects[id],
                        preCms |-> Selected(cms, item.ns, item.kind, item.name),
                        down |-> down, up |-> up, hib |-> hib[id]]
            /\ output' = IF dir = "up"
                         THEN LET r == find_latest_backup_state(w0, plan, item.ns,
                                                                item.kind, item.name)
                              IN [ret |-> r.ret, exc |-> r.exc]
                         ELSE NoOutput
  /\ UNCHANGED <<now, MAX_BACKUPS_TO_RETAIN, stop, stoppedIn, input, applied, pc,
                 nsTodo, kindTodo, itemTodo, hib, visited, saved, trail>>

\* the wall clock moves on to the next instant
RestoreTick ==
  /\ pc = "restore"
  /\ now < MaxTime
  /\ now' = now + 1
  /\ UNCHANGED <<objects, cms, MAX_BACKUPS_TO_RETAIN, stop, stoppedIn, input,
                 output, applied, pc, run_now_utc, nsTodo, kindTodo, itemTodo,
                 faults, last, hib, visited, saved, trail>>

NextRestore ==
  \/ RestoreItem
  \/ RestoreTick

SpecRestore == InitRestore /\ [][NextRestore]_vars

\* the snapshot lacks the key <kind>-<name>, or its payload is not JSON
Unusable(cm) ==
  \/ cm.key # <<KindLower(cm.kind), cm.rname>>
  \/ json_loads(cm.data).exc = "JSONDecodeError"
\* the latest call was a scale-up tick, under SpecRestore
RestoreUp == pc = "restore" /\ last.dir = "up"

\* C21: when the snapshot of a resource with the greatest creation timestamp
\* lacks the key <kind>-<name> or holds malformed JSON, a scale-up tick lists
\* the snapshots and does nothing else: find_latest_backup_state returns None
\* and raises nothing, whatever older snapshots hold; no patch, create or
\* delete is made; the resource and its snapshots are left as they were.
C21_UnusableNewestNoRestore ==
  (/\ RestoreUp
   /\ last.preCms # {}
   /\ Unusable(Greatest(last.preCms)))
  => /\ Len(last.calls) = 1
     /\ last.calls[1].fn = "find_latest_backup_state"
     /\ last.calls[1].out \in {"ok", "api"} => output = [ret |-> NoState, exc |-> "none"]
     /\ output.ret = NoState
     /\ \A i \in DOMAIN last.calls : ~IsMutation(last.calls[i])
     /\ objects[last.id] = last.pre
     /\ LastSnapshots = last.preCms

\* StatefulSet db at its scale-up minute: the newest of its three snapshots
\* is malformed and an older one holds the saved state; the snapshots were
\* listed, None was returned and db stays at 0 replicas
C21_Witness ==
  /\ RestoreUp
  /\ last.id = Id(NsDev, "StatefulSet", "db")
  /\ Cardinality(last.preCms) = MaxSnapshots
  /\ Greatest(last.preCms).data = Malformed
  /\ \E c \in last.preCms : ~Unusable(c)
  /\ Len(last.calls) = 1
  /\ last.calls[1].out = "ok"
  /\ output = [ret |-> NoState, exc |-> "none"]
  /\ objects[last.id].spec.replicas = 0

\* the same with a newest snapshot that lacks the key, for the autoscaler:
\* it is not created again
C21_WitnessNoKey ==
  /\ RestoreUp
  /\ last.id = Hpa
  /\ last.preCms # {}
  /\ Greatest(last.preCms).key # <<KindLower(last.id.kind), last.id.name>>
  /\ Greatest(last.preCms).data # Malformed
  /\ \E c \in last.preCms : ~Unusable(c)
  /\ last.calls[1].out = "ok"
  /\ output = [ret |-> NoState, exc |-> "none"]
  /\ ~objects[last.id].exists

\* a scale-up tick whose newest snapshot holds the saved state restores it
C21_WitnessRestored ==
  /\ RestoreUp
  /\ last.preCms # {}
  /\ ~Unusable(Greatest(last.preCms))
  /\ \E c \in last.preCms : Unusable(c)
  /\ AllOk(last.calls)
  /\ output.ret = SavedState(last.id)
  /\ \E i \in DOMAIN last.calls : IsMutation(last.calls[i])

(***************************************************************************)
(* The instant of a pass.                                                  *)
(***************************************************************************)
\* what process_single_resource decides for annotations checked at an instant
Decision(ann, at) ==
  IF ann.ks_scale = Disable THEN "skip"
  ELSE IF IsActive(ann.ks_scale_down, at) THEN "down"
  ELSE IF IsActive(ann.ks_scale_up, at) THEN "up"
  ELSE "none"
\* what a tick set about, read off its calls: the scale-down branch starts
\* with the state getter, the scale-up branch with the list of the snapshots
Acted(calls) ==
  IF calls = <<>> THEN "none"
  ELSE IF calls[1].fn = "find_latest_backup_state" THEN "up"
  ELSE "down"
\* the items this pass has processed
ItemEvents == {i \in DOMAIN trail : trail[i].ev = "item"}
\* the annotations of the item of an event
EventAnn(e) == AnnOf(Id(e.ns, e.kind, e.items[1]))
Minute(i) == <<Instant(i).day, Instant(i).hour, Instant(i).minute>>
Api == Id(NsKubeflow, "Deployment", "api")

\* C22: every item a pass processes is decided at the instant run_reconciliation
\* captured when the pass began, wherever the wall clock has come to: the tick
\* sets about scaling down (or up) exactly when the resource is not disabled
\* and its scale-down (or, failing that, scale-up) schedule is active at that
\* instant, and all the decisions of one pass are those of that one instant
\* (an item listed without annotations, as a recreated autoscaler is, has no
\* schedule and is left alone).
C22_DecidedAtPassStart ==
  (pc \in {"running", "waiting"} /\ ItemEvents # {})
  => /\ last.at = run_now_utc
     /\ Acted(last.calls) = (IF Decision(last.ann, run_now_utc) = "skip" THEN "none"
                             ELSE Decision(last.ann, run_now_utc))
     /\ \A i \in ItemEvents :
          \/ trail[i].dir = Decision(EventAnn(trail[i]), run_now_utc)
          \/ /\ ~objects[Id(trail[i].ns, trail[i].kind, trail[i].items[1])].annotated
             /\ trail[i].dir = "none"

\* the pass began at 09:02:05 on Friday and reaches Deployment api, whose
\* scale-up schedule is 09:02, when the wall clock reads 09:00 on Saturday,
\* the minute of its scale-down schedule: api is scaled up from its snapshot
C22_Witness ==
  /\ pc = "running"
  /\ ItemEvents # {}
  /\ last.id = Api
  /\ Minute(now) # Minute(run_now_utc)
  /\ Decision(last.ann, now) = "down"
  /\ Decision(last.ann, run_now_utc) = "up"
  /\ Acted(last.calls) = "up"
  /\ AllOk(last.calls)
  /\ \E i \in DOMAIN last.calls :
       IsMutation(last.calls[i]) /\ last.calls[i].arg.direction = "up"
  /\ objects[Api].spec.replicas >= 1

\* the pass began at 09:01 and reaches api at 09:02:05, the minute of its
\* scale-up schedule: nothing is done for it in this pass
C22_WitnessNotScaled ==
  /\ pc = "running"
  /\ ItemEvents # {}
  /\ last.id = Api
  /\ Minute(now) # Minute(run_now_utc)
  /\ Decision(last.ann, now) = "up"
  /\ Decision(last.ann, run_now_utc) = "none"
  /\ last.calls = <<>>

(***************************************************************************)
(* The snapshots of the other resources.                                   *)
(***************************************************************************)
\* the ConfigMap carries the labels backup_state gives the snapshots of id
LabelledFor(cm, id) == cm.ns = id.ns /\ cm.kind = id.kind /\ cm.rname = id.name
\* the calls prune_old_backups made in the latest tick
PruneCalls(calls) == SelectSeq(calls, LAMBDA c : c.fn = "prune_old_backups")
\* the latest tick tried to save a snapshot and the create call failed
SaveFailed(calls) ==
  \E i \in DOMAIN calls : calls[i].api = "create_config_map" /\ calls[i].out # "ok"
HpaSnapshots == {cm \in cms : LabelledFor(cm, Hpa)}

\* C23: a step removes from the store only ConfigMaps of the namespace of the
\* resource being processed that are labelled with its kind and its name, and
\* only after a create call of that tick succeeded; it adds only ConfigMaps so
\* labelled; every ConfigMap labelled otherwise is in the store after the step
\* as it was before; and a tick whose create call failed makes no call of
\* prune_old_backups and removes nothing.
C23_OthersUntouched ==
  /\ [][/\ \A cm \in cms \ cms' :
             /\ LabelledFor(cm, last'.id)
             /\ Created(last'.calls) # <<>>
        /\ \A cm \in cms' \ cms : LabelledFor(cm, last'.id)
        /\ \A cm \in cms : (~LabelledFor(cm, last'.id)) => cm \in cms']_vars
  /\ [][SaveFailed(last'.calls)
          => /\ PruneCalls(last'.calls) = <<>>
             /\ cms' \subseteq cms
             /\ cms \subseteq cms']_vars

\* Deployment web is saved again on Saturday under a limit of one snapshot:
\* its older snapshot is deleted, and the snapshot of the autoscaler of the
\* same name in the same namespace and the one of Deployment dns in
\* kube-system are still there
C23_Witness ==
  /\ last.id = Web
  /\ last.dir = "down"
  /\ MAX_BACKUPS_TO_RETAIN = 1
  /\ Created(last.calls) # <<>>
  /\ \E i \in DOMAIN last.calls :
       last.calls[i].api = "delete_config_map" /\ last.calls[i].out = "ok"
  /\ Cardinality(LastSnapshots) = 1
  /\ HpaSnapshots # {}
  /\ \A cm \in HpaSnapshots : \E own \in LastSnapshots : cm.created < own.created
  /\ \E cm \in cms : cm.ns = NsKubeSystem

\* a scale-down tick of web whose create call fails while web has more
\* snapshots than the limit: nothing is listed or deleted
C23_WitnessFailedSave ==
  /\ last.id = Web
  /\ last.dir = "down"
  /\ MAX_BACKUPS_TO_RETAIN = 1
  /\ SaveFailed(last.calls)
  /\ Cardinality(last.preCms) > MAX_BACKUPS_TO_RETAIN
  /\ LastSnapshots = last.preCms
  /\ PruneCalls(last.calls) = <<>>

====
